---- MODULE Spec2Model ----
(***************************************************************************)
(* Model of hclog's context resolution and dispatch engine: the global     *)
(* registry (Context / LogScope / Submodule), the task-local override      *)
(* store (task::LocalKey, TaskLocalFuture) and the resolver (CTX::call,    *)
(* CTX::call_mut) together with the public API built on them.              *)
(*                                                                         *)
(* Option<T> is modelled as a sequence of length 0 (None) or 1 (Some).     *)
(* Options (a u16 bitmask) is modelled as the set of flags that are set.   *)
(***************************************************************************)
EXTENDS Integers, Sequences, FiniteSets, TLC

(* ------------------------------------------------------------------ *)
(* bounds                                                              *)
(* ------------------------------------------------------------------ *)
NumThreads == 2     \* threads making API calls and polling
MaxFutures == 1     \* overrides constructed in Spec
MaxNested == 2      \* overrides constructed in SpecNested
MaxKey == 1         \* application log keys 0..MaxKey
MaxSets == 1        \* setter calls per behaviour
MaxRegKey == 2      \* application log keys 0..MaxRegKey in SpecRegistry
MaxSubSets == 3     \* configuration calls in SpecSubmodule
MaxOptSets == 2     \* configuration calls in SpecOptions
MaxModSets == 2     \* set_mod_level calls in SpecModLevel

Threads == 1..NumThreads
Futures == 1..MaxNested

(* ------------------------------------------------------------------ *)
(* logmod.rs: ScopeKey                                                 *)
(* ------------------------------------------------------------------ *)
Application == 0
CLog == 1
Lib == 2
ScopeKeyMAX == 3
ScopeKeys == 0..(ScopeKeyMAX - 1)

(* ------------------------------------------------------------------ *)
(* level.rs: Level                                                     *)
(* ------------------------------------------------------------------ *)
Off == 0
Emerg == 1
Alert == 2
Crit == 3
Error == 4
Warn == 5
Notice == 6
Info == 7
Debug1 == 8
Debug5 == 12
Debug10 == 17
Levels == Off..Debug10

is_enabled_strict(self, other) == other < self

is_enabled(self, other) == other <= self

debug_level(id) ==
    IF id = 0 THEN Off
    ELSE IF Info + id <= Debug10 THEN Info + id ELSE Debug10

(* ------------------------------------------------------------------ *)
(* options.rs: Options                                                 *)
(* ------------------------------------------------------------------ *)
AllFlags == {"LINEBUFFERED", "TIMESTAMP", "DATESTAMP", "NANOSEC", "BINNAME",
             "PID", "TID", "MODULE", "SEVERITY", "SCOPE", "FUNC", "FILE",
             "LINE", "LOGCOMPAT", "EXACT_LVL_MATCH"}

Options_add(a, b) == a \cup b
Options_sub(a, b) == a \ b
Options_has(self, flags) == flags \subseteq self

Options_default ==
    {"LINEBUFFERED", "TIMESTAMP", "DATESTAMP", "NANOSEC", "BINNAME",
     "PID", "TID", "MODULE", "SEVERITY", "FUNC", "FILE", "LINE", "LOGCOMPAT"}

SyslogSuppressed ==
    {"TIMESTAMP", "DATESTAMP", "NANOSEC", "BINNAME", "PID", "SEVERITY"}

for_syslog(self) == Options_sub(self, SyslogSuppressed)

(* The process environment: HCLOG_OPT_<FLAG>=1 (opt_on), =0 (opt_off),   *)
(* HCLOG_LEVEL, HCLOG_FACADE and CLOG_DEBUG.                             *)
EnvEmpty ==
    [opt_on |-> {}, opt_off |-> {}, level |-> <<>>, facade |-> <<>>,
     clog_debug |-> <<>>]
EnvDebug ==
    [opt_on |-> {"SCOPE"}, opt_off |-> {"TID"}, level |-> <<>>,
     facade |-> <<>>, clog_debug |-> <<1>>]
EnvChoices == {EnvEmpty}

parse_from_env(self, e) == Options_add(Options_sub(self, e.opt_off), e.opt_on)

Options_reset(e) == parse_from_env(Options_default, e)

(* ------------------------------------------------------------------ *)
(* facades.rs: FacadeVariant / FacadeScope                             *)
(* ------------------------------------------------------------------ *)
FacadeVariants == {"None", "StdOut", "StdErr", "Syslog", "File"}

(* FacadeScope::new: the live sink is identified by its variant;        *)
(* FacadeScope::None for FacadeVariant::None.                            *)
FacadeScope_new(variant) == variant

(* FacadeScope::inner *)
FacadeScope_inner(d) == IF d = "None" THEN <<>> ELSE <<d>>

is_syslog(d) == d = "Syslog"

(* LogFacade::log(level, msg): the messages that reach the sink.        *)
(* Syslog drops a message handed over with Level::Off.                  *)
Facade_log(d, level, msg) ==
    IF is_syslog(d) /\ level = Off THEN <<>>
    ELSE <<[dest |-> d, level |-> level, msg |-> msg]>>

(* ------------------------------------------------------------------ *)
(* lib.rs: LogKey descriptors (the keys an application declares)       *)
(* ------------------------------------------------------------------ *)
KeyNames == <<"k0", "k1", "k2", "k3", "k4">>

AppKey(i) ==
    [logscope |-> Application, log_key |-> i, name |-> KeyNames[i + 1],
     init_level |-> <<>>, init_facade |-> <<>>, init_options |-> <<>>]

(* log_internal.rs: InternalLogKeys *)
Internal ==
    [logscope |-> CLog, log_key |-> 0, name |-> "hclog",
     init_level |-> <<>>, init_facade |-> <<>>, init_options |-> <<>>]
LogCompat ==
    [logscope |-> CLog, log_key |-> 1, name |-> "logcompat",
     init_level |-> <<>>, init_facade |-> <<>>, init_options |-> <<>>]

AppKeys == {AppKey(i) : i \in 0..MaxKey}
InputKeys == AppKeys \cup {Internal}

unwrap_or(opt, dflt) == IF opt = <<>> THEN dflt ELSE opt[1]

(* ------------------------------------------------------------------ *)
(* submodule.rs: Submodule                                             *)
(* ------------------------------------------------------------------ *)
Submodule_default ==
    [key |-> Internal.log_key, name |-> Internal.name,
     options |-> Options_default, initialized |-> FALSE,
     logsev |-> Off, logdest |-> "None"]

set_options_internal(self) ==
    IF FacadeScope_inner(self.logdest) # <<>> /\ is_syslog(self.logdest)
    THEN [self EXCEPT !.options = for_syslog(self.options)]
    ELSE self

Submodule_new_default_key(key, logsev, f, options) ==
    set_options_internal(
        [key |-> Submodule_default.key, name |-> key.name, options |-> options,
         initialized |-> TRUE, logsev |-> logsev,
         logdest |-> FacadeScope_new(f)])

Submodule_new_unsuppressed(key, logsev, f, options) ==
    [key |-> key.log_key, name |-> key.name, options |-> options,
     initialized |-> TRUE, logsev |-> logsev, logdest |-> FacadeScope_new(f)]

Submodule_new(key, logsev, f, options) ==
    set_options_internal(
        [key |-> key.log_key, name |-> key.name, options |-> options,
         initialized |-> TRUE, logsev |-> logsev,
         logdest |-> FacadeScope_new(f)])

set_logsev(self, logsev) == [self EXCEPT !.logsev = logsev]

set_logdest(self, variant) == [self EXCEPT !.logdest = FacadeScope_new(variant)]

reset_options(self, e) ==
    set_options_internal([self EXCEPT !.options = Options_reset(e)])

set_options_replace(self, flags) ==
    set_options_internal([self EXCEPT !.options = flags])

set_options(self, flags) ==
    set_options_internal([self EXCEPT !.options = Options_add(self.options, flags)])

unset_options(self, flags) ==
    set_options_internal([self EXCEPT !.options = Options_sub(self.options, flags)])

will_log_threshold_only(self, logsev) == is_enabled(self.logsev, logsev)

will_log(self, logsev) ==
    IF Options_has(self.options, {"EXACT_LVL_MATCH"})
    THEN self.logsev = logsev
    ELSE is_enabled(self.logsev, logsev)

(* Submodule::do_log: the messages handed to the sink.  The message     *)
(* carries the severity of the call, the module name and the scope; the *)
(* sink call itself is made with self.logsev.                            *)
do_log(self, cratename, scope, scope_ident, lvl) ==
    IF FacadeScope_inner(self.logdest) = <<>> THEN <<>>
    ELSE Facade_log(self.logdest, self.logsev,
                    [severity |-> lvl, modname |-> self.name,
                     cratename |-> cratename, scope |-> scope,
                     ident |-> scope_ident])

(* ------------------------------------------------------------------ *)
(* logmod.rs: LogScope                                                 *)
(* ------------------------------------------------------------------ *)
LogScope_default ==
    [name |-> "", lm |-> Application, env |-> "Global", env_ident |-> <<>>,
     initialized |-> FALSE, submodules |-> <<>>,
     default_options |-> Options_default, default_facade |-> "None",
     default_level |-> Off]

LogScope_init(lm, name, level, facade, options, e) ==
    [name |-> name, lm |-> lm, env |-> "Global", env_ident |-> <<>>,
     initialized |-> TRUE, submodules |-> <<>>,
     default_options |-> parse_from_env(options, e),
     default_facade |-> unwrap_or(e.facade, facade),
     default_level |-> unwrap_or(e.level, level)]

(* a to_scoped that hands out the LogScope as it is *)
to_scoped_keep_env(self, ident) == self

to_scoped(self, ident) ==
    [self EXCEPT !.env = "Task", !.env_ident = <<ident>>]

has_submodule_index_only(self, key) ==
    self.initialized /\ key.log_key < Len(self.submodules)

has_submodule(self, key) ==
    IF ~self.initialized \/ Len(self.submodules) <= key.log_key THEN FALSE
    ELSE LET submod == self.submodules[key.log_key + 1]
         IN  ~(~submod.initialized \/ submod.key # key.log_key)

add_submodule_overwrite(self, submod) ==
    LET level == unwrap_or(submod.init_level, self.default_level)
        facade == unwrap_or(submod.init_facade, self.default_facade)
        opts == unwrap_or(submod.init_options, self.default_options)
        n == Len(self.submodules)
        k == submod.log_key
    IN  IF k < n
        THEN [self EXCEPT !.submodules[k + 1] =
                              Submodule_new(submod, level, facade, opts)]
        ELSE [self EXCEPT !.submodules =
                 self.submodules
                 \o [i \in 1..(k - n) |-> Submodule_default]
                 \o <<Submodule_new(submod, level, facade, opts)>>]

(* LogScope::add_submodule on an initialized scope *)
add_submodule(self, submod) ==
    LET level == unwrap_or(submod.init_level, self.default_level)
        facade == unwrap_or(submod.init_facade, self.default_facade)
        opts == unwrap_or(submod.init_options, self.default_options)
        n == Len(self.submodules)
        k == submod.log_key
    IN  IF k < n
        THEN IF ~self.submodules[k + 1].initialized
             THEN [self EXCEPT !.submodules[k + 1] =
                                   Submodule_new(submod, level, facade, opts)]
             ELSE self
        ELSE [self EXCEPT !.submodules =
                 self.submodules
                 \o [i \in 1..(k - n) |-> Submodule_default]
                 \o <<Submodule_new(submod, level, facade, opts)>>]

(* LogScope::get_submodule / get_submodule_mut: Vec::get *)
get_submodule(self, key) ==
    IF key.log_key < Len(self.submodules)
    THEN <<self.submodules[key.log_key + 1]>> ELSE <<>>

(* ------------------------------------------------------------------ *)
(* context.rs: Context                                                 *)
(* ------------------------------------------------------------------ *)
Context_default == [sk \in ScopeKeys |-> LogScope_default]

Context_has(self, key) == ScopeKeyMAX < key \/ self[key].initialized

(* an init_mod that builds the LogScope anew on every call *)
init_mod_recreate(self, lm, name, level, facade, options, e) ==
    [self EXCEPT ![lm] = LogScope_init(lm, name, level, facade, options, e)]

init_mod(self, lm, name, level, facade, options, e) ==
    IF ~Context_has(self, lm)
    THEN [self EXCEPT ![lm] = LogScope_init(lm, name, level, facade, options, e)]
    ELSE self

(* Context::get_mod / get_mod_mut: the error of the lookup, if any *)
get_mod_unchecked(self, lm) == "Ok"

get_mod(self, lm) ==
    IF ~Context_has(self, lm) THEN "ScopeNotInitialized" ELSE "Ok"

(* ------------------------------------------------------------------ *)
(* api.rs: the closures handed to the resolver.  Each returns the      *)
(* result of the closure, the context as the closure leaves it and the *)
(* messages it handed to sinks.                                        *)
(* ------------------------------------------------------------------ *)
Res(res, ctx, sent) == [res |-> res, ctx |-> ctx, sent |-> sent]

(* the Submodule method each setter of api.rs calls *)
ApplySetter(op, m, arg, e) ==
    CASE op = "set_level" -> set_logsev(m, arg)
      [] op = "set_logdest" -> set_logdest(m, arg)
      [] op = "set_module_options" -> set_options(m, arg)
      [] op = "unset_module_options" -> unset_options(m, arg)
      [] op = "reset_module_options" -> reset_options(m, e)

(* closure of set_level, set_logdest, set/unset/reset_module_options *)
SetterF(ctx, op, key, arg, e) ==
    IF get_mod(ctx, key.logscope) # "Ok"
    THEN Res("ScopeNotInitialized", ctx, <<>>)
    ELSE IF get_submodule(ctx[key.logscope], key) = <<>>
    THEN Res("KeyNotInitialized", ctx, <<>>)
    ELSE Res("Ok",
             [ctx EXCEPT ![key.logscope].submodules[key.log_key + 1] =
                             ApplySetter(op, @, arg, e)],
             <<>>)

(* closure of test_log *)
TestLogF(ctx, key, lvl) ==
    IF get_mod(ctx, key.logscope) # "Ok"
    THEN Res("ScopeNotInitialized", ctx, <<>>)
    ELSE LET m == get_submodule(ctx[key.logscope], key)
         IN  IF m = <<>> THEN Res("Ok(false)", ctx, <<>>)
             ELSE IF will_log(m[1], lvl) THEN Res("Ok(true)", ctx, <<>>)
             ELSE Res("Ok(false)", ctx, <<>>)

(* closure of has_module *)
HasModuleF(ctx, key) ==
    IF get_mod(ctx, key.logscope) # "Ok"
    THEN Res("ScopeNotInitialized", ctx, <<>>)
    ELSE IF has_submodule(ctx[key.logscope], key)
    THEN Res("Ok(true)", ctx, <<>>)
    ELSE Res("Ok(false)", ctx, <<>>)

(* closure of log; diag is the outcome of the lE!(Internal, ..) the    *)
(* closure issues when the Vec lookup finds nothing.                    *)
LogF(ctx, key, lvl, diag) ==
    IF get_mod(ctx, key.logscope) # "Ok"
    THEN Res("ScopeNotInitialized", ctx, <<>>)
    ELSE LET lm == ctx[key.logscope]
             m == get_submodule(lm, key)
         IN  IF m # <<>> /\ will_log(m[1], lvl)
             THEN Res("Ok", ctx, do_log(m[1], lm.name, lm.env, lm.env_ident, lvl))
             ELSE IF m # <<>> THEN Res("Ok", ctx, <<>>)
             ELSE IF diag.panic THEN Res("panic", ctx, diag.sent)
             ELSE Res("KeyNotInitialized", ctx, diag.sent)

(* ------------------------------------------------------------------ *)
(* context.rs: CTX::call / CTX::call_mut.  sl is the thread's          *)
(* TASK_CONTEXT slot (Option<Context>), g the GLOBAL_CONTEXT.           *)
(* task::LocalKey::try_with / try_with_mut answer AccessError when the  *)
(* slot is empty.                                                       *)
(* ------------------------------------------------------------------ *)
TaskCtx(sl) == IF sl = <<>> THEN Context_default ELSE sl[1]

(* r is what the closure answers on the Context in the slot *)
try_with(sl, r) ==
    IF sl = <<>> THEN Res("AccessError", Context_default, <<>>) ELSE r

(* a resolver that goes to Global on every error of the task copy *)
FallsThrough_any_error(loc) ==
    loc.res \in {"AccessError", "KeyNotInitialized", "ScopeNotInitialized"}

FallsThrough(loc) == loc.res \in {"AccessError", "KeyNotInitialized"}

(* loc is the outcome of TASK_CONTEXT.try_with(f), gl what the closure  *)
(* answers on the global Context (evaluated only on fall-through)       *)
CTX_call(loc, gl) ==
    IF FallsThrough(loc)
    THEN [res |-> gl.res, via |-> "global", local |-> loc.res,
          sent |-> loc.sent \o gl.sent]
    ELSE [res |-> loc.res, via |-> "task", local |-> loc.res,
          sent |-> loc.sent]

(* a resolver that applies the write to the global Context as well *)
CTX_call_mut_write_through(loc, gl, sl, g) ==
    IF FallsThrough(loc)
    THEN [res |-> gl.res, via |-> "global", local |-> loc.res,
          slot |-> sl, global |-> gl.ctx]
    ELSE [res |-> loc.res, via |-> "task", local |-> loc.res,
          slot |-> <<loc.ctx>>, global |-> gl.ctx]

CTX_call_mut(loc, gl, sl, g) ==
    IF FallsThrough(loc)
    THEN [res |-> gl.res, via |-> "global", local |-> loc.res,
          slot |-> sl, global |-> gl.ctx]
    ELSE [res |-> loc.res, via |-> "task", local |-> loc.res,
          slot |-> <<loc.ctx>>, global |-> g]

NoDiag == [panic |-> FALSE, sent |-> <<>>]

api_test_log(key, lvl, sl, g) ==
    CTX_call(try_with(sl, TestLogF(TaskCtx(sl), key, lvl)), TestLogF(g, key, lvl))

api_has_module(key, sl, g) ==
    CTX_call(try_with(sl, HasModuleF(TaskCtx(sl), key)), HasModuleF(g, key))

(* macros.rs: hclog!(lvl, Internal, ..) as issued by the library       *)
(* itself: tX!(..) unwraps test_log, log(..) is unwrapped as well.      *)
(* After test_log answered true the Vec lookup of the nested log finds  *)
(* the same Submodule, so the nested log issues no diagnostic itself.   *)
hclog_internal(lvl, sl, g) ==
    LET t == api_test_log(Internal, lvl, sl, g)
    IN  IF t.res = "Ok(true)"
        THEN LET l == CTX_call(try_with(sl, LogF(TaskCtx(sl), Internal, lvl, NoDiag)),
                               LogF(g, Internal, lvl, NoDiag))
             IN  [panic |-> l.res # "Ok", sent |-> l.sent]
        ELSE IF t.res = "Ok(false)" THEN NoDiag
        ELSE [panic |-> TRUE, sent |-> <<>>]

api_log(key, lvl, sl, g) ==
    CTX_call(try_with(sl, LogF(TaskCtx(sl), key, lvl, hclog_internal(Error, sl, g))),
             LogF(g, key, lvl, hclog_internal(Error, sl, g)))

api_setter(op, key, arg, sl, g, e) ==
    CTX_call_mut(try_with(sl, SetterF(TaskCtx(sl), op, key, arg, e)),
                 SetterF(g, op, key, arg, e), sl, g)

(* ------------------------------------------------------------------ *)
(* context.rs Context::get_submod_by_name, api.rs set_mod_level        *)
(* ------------------------------------------------------------------ *)
(* LogScope::get_submod_by_name: index of the first Submodule of the   *)
(* Vec whose name is name, 0 if there is none                           *)
LogScope_get_submod_by_name(self, name) ==
    LET S == {i \in 1..Len(self.submodules) : self.submodules[i].name = name}
    IN  IF S = {} THEN 0 ELSE CHOOSE i \in S : \A j \in S : i <= j

(* Context::get_submod_by_name: <<scope, index>> of the first match in *)
(* the initialized scopes, <<>> if there is none                        *)
Context_get_submod_by_name(self, name) ==
    LET SK == {sk \in ScopeKeys :
                 /\ self[sk].initialized
                 /\ LogScope_get_submod_by_name(self[sk], name) # 0}
    IN  IF SK = {} THEN <<>>
        ELSE LET sk == CHOOSE x \in SK : \A y \in SK : x <= y
             IN  <<sk, LogScope_get_submod_by_name(self[sk], name)>>

(* str::to_ascii_lowercase on the strings that hold upper-case letters *)
to_ascii_lowercase(s) ==
    CASE s = "K0" -> "k0"
      [] s = "K1" -> "k1"
      [] s = "_ALL" -> "_all"
      [] s = "INFO" -> "info"
      [] s = "Debug9" -> "debug9"
      [] OTHER -> s

eq_ignore_ascii_case(a, b) == to_ascii_lowercase(a) = to_ascii_lowercase(b)

(* level.rs: Display of Level (strum, serialize_all = "lowercase"), in  *)
(* the order of Level::iter()                                           *)
LevelNames ==
    <<"off", "emerg", "alert", "crit", "error", "warn", "notice", "info",
      "debug1", "debug2", "debug3", "debug4", "debug5", "debug6", "debug7",
      "debug8", "debug9", "debug10">>

Level_to_string(l) == LevelNames[l + 1]

(* level.rs: Level::from_str; <<>> is Err(UnknownLogLevel) *)
Level_from_str(s) ==
    LET I == {l \in Levels : eq_ignore_ascii_case(Level_to_string(l), s)}
    IN  IF I = {} THEN <<>>
        ELSE <<CHOOSE l \in I : \A m \in I : l <= m>>

(* A segment of an argument of set_mod_level is a sequence of tokens,   *)
(* the token ":" being the separator; a segment holds at most one ":".  *)
(* str::split_once(":"): <<>> is None                                   *)
split_once(seg) ==
    LET I == {i \in 1..Len(seg) : seg[i] = ":"}
    IN  IF I = {} THEN <<>>
        ELSE LET i == CHOOSE x \in I : \A y \in I : x <= y
             IN  <<SubSeq(seg, 1, i - 1), SubSeq(seg, i + 1, Len(seg))>>

(* the text of one side of a segment, "" if the side is empty *)
SegText(part) == IF part = <<>> THEN "" ELSE part[1]

(* an argument is the sequence of its comma-separated segments:         *)
(* it.into_iter().flat_map(|a| a.as_ref().split(','))                   *)
RECURSIVE flat_map_split(_)
flat_map_split(args) ==
    IF args = <<>> THEN <<>>
    ELSE Head(args) \o flat_map_split(Tail(args))

(* a set_mod_level that passes over a name it does not find *)
set_mod_level_pair_lenient(ctx, module, level) ==
    LET m == Context_get_submod_by_name(ctx, module)
    IN  IF m = <<>> THEN Res("Ok", ctx, <<>>)
        ELSE Res("Ok",
                 [ctx EXCEPT ![m[1]].submodules[m[2]] = set_logsev(@, level)],
                 <<>>)

(* set_mod_level: the effect of one well-formed "module:level" pair *)
set_mod_level_pair(ctx, module, level) ==
    IF eq_ignore_ascii_case(module, "_all")
    THEN Res("Ok",
             [sk \in ScopeKeys |->
                 IF ctx[sk].submodules = <<>> THEN ctx[sk]
                 ELSE [ctx[sk] EXCEPT !.submodules =
                          [i \in 1..Len(ctx[sk].submodules) |->
                              set_logsev(ctx[sk].submodules[i], level)]]],
             <<>>)
    ELSE LET m == Context_get_submod_by_name(ctx, module)
         IN  IF m = <<>> THEN Res("KeyNotInitialized", ctx, <<>>)
             ELSE Res("Ok",
                      [ctx EXCEPT ![m[1]].submodules[m[2]] = set_logsev(@, level)],
                      <<>>)

(* set_mod_level: the loop over the segments, on the write-locked       *)
(* global Context; the first error returns, what earlier segments set   *)
(* stays set                                                            *)
RECURSIVE set_mod_level(_, _)
set_mod_level(ctx, segs) ==
    IF segs = <<>> THEN Res("Ok", ctx, <<>>)
    ELSE LET p == split_once(Head(segs))
         IN  IF p = <<>> THEN Res("ParseArg", ctx, <<>>)
             ELSE LET module == SegText(p[1])
                      level == SegText(p[2])
                  IN  IF module = "" \/ level = ""
                      THEN Res("ParseArg", ctx, <<>>)
                      ELSE LET lv == Level_from_str(level)
                           IN  IF lv = <<>>
                               THEN Res("UnknownLogLevel", ctx, <<>>)
                               ELSE LET r == set_mod_level_pair(ctx, module, lv[1])
                                    IN  IF r.res # "Ok" THEN r
                                        ELSE set_mod_level(r.ctx, Tail(segs))

(* ------------------------------------------------------------------ *)
(* state                                                               *)
(* ------------------------------------------------------------------ *)
VARIABLES
    global,     \* context.rs GLOBAL_CONTEXT: the Context behind the RwLock
    env,        \* the process environment read by util::read_var_from_env
    compat,     \* compat.rs INITIALIZED
    slot,       \* context.rs TASK_CONTEXT: per thread RefCell<Option<Context>>
    fut,        \* the TaskLocalFuture wrappers: position, slot, future.is_some()
    stack,      \* per thread: the scope_inner calls in progress, innermost first
    nsets,      \* number of setter calls made so far
    pend,       \* per thread: the arguments of an init call that has read
                \* compat.rs INITIALIZED as false and not yet set the logger;
                \* in SpecLock the calls in progress and the guards they hold
    last        \* the API call or wrapper step just made and what it returned

vars == <<global, env, compat, slot, fut, stack, nsets, pend, last>>

NoKey ==
    [logscope |-> ScopeKeyMAX, log_key |-> 0, name |-> "",
     init_level |-> <<>>, init_facade |-> <<>>, init_options |-> <<>>]
NoArg == [lvl |-> Off, facade |-> "None", flags |-> {}]
LvlArg(l) == [NoArg EXCEPT !.lvl = l]
FacadeArg(f) == [NoArg EXCEPT !.facade = f]
FlagsArg(o) == [NoArg EXCEPT !.flags = o]

(* innermost wrapper whose scope_inner is in progress on thread t, 0 if none *)
Frame(t) == IF stack[t] = <<>> THEN 0 ELSE Head(stack[t]).w

Call(op, t, key, arg, res, via, local, sent) ==
    [op |-> op, t |-> t, frame |-> Frame(t), key |-> key, arg |-> arg,
     res |-> res, via |-> via, local |-> local, sent |-> sent, args |-> <<>>]

NoCall == [op |-> "none", t |-> 0, frame |-> 0, key |-> NoKey, arg |-> NoArg,
           res |-> "Ok", via |-> "global", local |-> "AccessError", sent |-> <<>>,
           args |-> <<>>]

(* a step of a wrapper (poll entry or exit, drop) on thread t *)
Step(op, t, w) == [NoCall EXCEPT !.op = op, !.t = t, !.frame = w]

FutInit == [st |-> "unused", slot |-> <<>>, future |-> FALSE, key |-> NoKey]

Init ==
    /\ global = Context_default
    /\ env \in EnvChoices
    /\ compat = FALSE
    /\ slot = [t \in Threads |-> <<>>]
    /\ fut = [w \in Futures |-> FutInit]
    /\ stack = [t \in Threads |-> <<>>]
    /\ nsets = 0
    /\ pend = [t \in Threads |-> <<>>]
    /\ last = NoCall

(* ------------------------------------------------------------------ *)
(* inputs                                                              *)
(* ------------------------------------------------------------------ *)
InitLevel == Info
InitFacade == "StdOut"
InitName == "svc"
InitOptions == Options_default
InitArgs ==
    [name |-> InitName, level |-> InitLevel, facade |-> InitFacade,
     options |-> InitOptions]
TestLevels == {Debug10}
SetLevels == {Debug10}
SetFacades == {"StdErr"}
SetFlags == {{"SCOPE"}}
UnsetFlags == {{"TID"}}
Idents == <<"Task1", "Task2", "Task3", "Task4">>

SetterInputs ==
    ({"set_level"} \X {LvlArg(l) : l \in SetLevels})
    \cup ({"set_logdest"} \X {FacadeArg(f) : f \in SetFacades})
    \cup ({"set_module_options"} \X {FlagsArg(o) : o \in SetFlags})
    \cup ({"unset_module_options"} \X {FlagsArg(o) : o \in UnsetFlags})
    \cup ({"reset_module_options"} \X {NoArg})

SetterArg(op, arg) ==
    CASE op = "set_level" -> arg.lvl
      [] op = "set_logdest" -> arg.facade
      [] OTHER -> arg.flags

(* ------------------------------------------------------------------ *)
(* log_internal.rs / api.rs / compat.rs: initialization                *)
(* ------------------------------------------------------------------ *)
(* InternalLogKeys::init: Scope CLog with the Internal key *)
InternalLogKeys_init(g, name, e) ==
    LET facade == IF e.clog_debug # <<>> THEN "StdOut" ELSE "None"
        level == IF e.clog_debug # <<>> THEN debug_level(e.clog_debug[1]) ELSE Off
        g1 == init_mod(g, CLog, name, level, facade, Options_default, e)
    IN  [g1 EXCEPT ![CLog] = add_submodule(@, Internal)]

(* compat::init_log_compat up to its lD1! diagnostic *)
init_log_compat(g, level, facade) ==
    LET lm == add_submodule(g[CLog], LogCompat)
    IN  [g EXCEPT ![CLog] =
            [lm EXCEPT !.submodules[LogCompat.log_key + 1] =
                           set_logdest(set_logsev(@, level), facade)]]

InitArg(a) == [lvl |-> a.level, facade |-> a.facade, flags |-> a.options]

(* api::init::<I, S> for the Application scope, a = (name, level,      *)
(* facade, options), run without another thread in between             *)
ApiInit(t, a) ==
    /\ pend[t] = <<>>
    /\ LET g1 == InternalLogKeys_init(global, a.name, env)
           g2 == init_mod(g1, Application, a.name, a.level, a.facade, a.options, env)
           docompat == Options_has(a.options, {"LOGCOMPAT"}) /\ ~compat
           g3 == IF docompat THEN init_log_compat(g2, a.level, a.facade) ELSE g2
           diag == IF docompat THEN hclog_internal(Debug1, slot[t], g3) ELSE NoDiag
       IN  /\ global' = g3
           /\ compat' = (compat \/ (docompat /\ ~diag.panic))
           /\ last' = Call("init", t, NoKey, InitArg(a),
                           IF diag.panic THEN "panic" ELSE "Ok",
                           "global", "AccessError", diag.sent)
    /\ UNCHANGED <<env, slot, fut, stack, nsets, pend>>

(* api::init as two steps; reinit notes whether the call found the     *)
(* Application Scope initialized.  ApiInitBegin: InternalLogKeys::init, init_mod *)
(* and, with LOGCOMPAT, the load of INITIALIZED in init_log_compat.      *)
ApiInitBegin(t, a) ==
    /\ pend[t] = <<>>
    /\ LET g1 == InternalLogKeys_init(global, a.name, env)
           g2 == init_mod(g1, Application, a.name, a.level, a.facade, a.options, env)
           docompat == Options_has(a.options, {"LOGCOMPAT"}) /\ ~compat
       IN  /\ global' = g2
           /\ pend' = IF docompat
                       THEN [pend EXCEPT ![t] =
                               <<[args |-> a, reinit |-> Context_has(global, Application)]>>]
                       ELSE pend
           /\ last' = Call(IF docompat THEN "init_begin" ELSE "init", t, NoKey,
                           InitArg(a), "Ok", "global", "AccessError", <<>>)
    /\ UNCHANGED <<env, compat, slot, fut, stack, nsets>>

(* ApiInitCompat: the rest of init_log_compat after INITIALIZED was     *)
(* read as false: registration of LogCompat, the diagnostic,            *)
(* log::set_boxed_logger (which fails once a logger is set) and the     *)
(* store to INITIALIZED.                                                 *)
ApiInitCompat(t) ==
    /\ pend[t] # <<>>
    /\ LET a == pend[t][1].args
           g3 == init_log_compat(global, a.level, a.facade)
           diag == hclog_internal(Debug1, slot[t], g3)
       IN  /\ global' = g3
           /\ compat' = (compat \/ ~diag.panic)
           /\ last' = Call("init", t, NoKey, InitArg(a),
                           IF diag.panic THEN "panic"
                           ELSE IF compat THEN "LogCompatInitialized" ELSE "Ok",
                           "global", "AccessError", diag.sent)
    /\ pend' = [pend EXCEPT ![t] = <<>>]
    /\ UNCHANGED <<env, slot, fut, stack, nsets>>

RECURSIVE AddAll(_, _)
(* api::add_submodules: the loop over the keys, stopping at the first error *)
AddAll(g, keys) ==
    IF keys = <<>> THEN Res("Ok", g, <<>>)
    ELSE LET m == Head(keys)
         IN  IF get_mod(g, m.logscope) # "Ok" THEN Res("ScopeNotInitialized", g, <<>>)
             ELSE AddAll([g EXCEPT ![m.logscope] = add_submodule(@, m)], Tail(keys))

AddInputs == {<<k>> : k \in AppKeys}

ApiAddSubmodules(t, keys) ==
    /\ pend[t] = <<>>
    /\ LET r == AddAll(global, keys)
       IN  /\ global' = r.ctx
           /\ last' = Call("add_submodules", t, Head(keys), NoArg, r.res,
                           "global", "AccessError", <<>>)
    /\ UNCHANGED <<env, compat, slot, fut, stack, nsets, pend>>

(* ------------------------------------------------------------------ *)
(* api.rs: read operations and setters, resolved by CTX::call(_mut)    *)
(* ------------------------------------------------------------------ *)
ApiTestLog(t, key, lvl) ==
    /\ pend[t] = <<>>
    /\ LET r == api_test_log(key, lvl, slot[t], global)
       IN  last' = Call("test_log", t, key, LvlArg(lvl), r.res, r.via, r.local, r.sent)
    /\ UNCHANGED <<global, env, compat, slot, fut, stack, nsets, pend>>

ApiHasModule(t, key) ==
    /\ pend[t] = <<>>
    /\ LET r == api_has_module(key, slot[t], global)
       IN  last' = Call("has_module", t, key, NoArg, r.res, r.via, r.local, r.sent)
    /\ UNCHANGED <<global, env, compat, slot, fut, stack, nsets, pend>>

ApiLog(t, key, lvl) ==
    /\ pend[t] = <<>>
    /\ LET r == api_log(key, lvl, slot[t], global)
       IN  last' = Call("log", t, key, LvlArg(lvl), r.res, r.via, r.local, r.sent)
    /\ UNCHANGED <<global, env, compat, slot, fut, stack, nsets, pend>>

(* a setter call, as long as fewer than max configuration calls were made *)
ApiSetterUpTo(t, op, key, arg, max) ==
    /\ pend[t] = <<>>
    /\ nsets < max
    /\ LET r == api_setter(op, key, SetterArg(op, arg), slot[t], global, env)
       IN  /\ slot' = [slot EXCEPT ![t] = r.slot]
           /\ global' = r.global
           /\ last' = Call(op, t, key, arg, r.res, r.via, r.local, <<>>)
    /\ nsets' = nsets + 1
    /\ UNCHANGED <<env, compat, fut, stack, pend>>

ApiSetter(t, op, key, arg) == ApiSetterUpTo(t, op, key, arg, MaxSets)

(* a set_mod_level that resolves like the setters: on the task copy of *)
(* the calling thread if there is one                                   *)
ApiSetModLevel_resolved(t, module, level) ==
    /\ pend[t] = <<>>
    /\ nsets < MaxSets
    /\ LET r == set_mod_level_pair(TaskCtx(slot[t]), module, level)
           g == set_mod_level_pair(global, module, level)
       IN  /\ slot' = [slot EXCEPT ![t] = IF slot[t] = <<>> THEN <<>> ELSE <<r.ctx>>]
           /\ global' = IF slot[t] = <<>> THEN g.ctx ELSE global
           /\ last' = Call("set_mod_level", t, [NoKey EXCEPT !.name = module],
                           LvlArg(level), IF slot[t] = <<>> THEN g.res ELSE r.res,
                           "global", "AccessError", <<>>)
    /\ nsets' = nsets + 1
    /\ UNCHANGED <<env, compat, fut, stack, pend>>

(* api::set_mod_level with one well-formed pair: always on the global  *)
(* Context (CTX::get_mut)                                               *)
ApiSetModLevel(t, module, level) ==
    /\ pend[t] = <<>>
    /\ nsets < MaxSets
    /\ LET r == set_mod_level_pair(global, module, level)
       IN  /\ global' = r.ctx
           /\ last' = Call("set_mod_level", t, [NoKey EXCEPT !.name = module],
                           LvlArg(level), r.res, "global", "AccessError", <<>>)
    /\ nsets' = nsets + 1
    /\ UNCHANGED <<env, compat, slot, fut, stack, pend>>

(* api::set_mod_level with a list of arguments, each a list of          *)
(* comma-separated segments                                             *)
ApiSetModLevelArgs(t, args) ==
    /\ pend[t] = <<>>
    /\ nsets < MaxModSets
    /\ LET r == set_mod_level(global, flat_map_split(args))
       IN  /\ global' = r.ctx
           /\ last' = [Call("set_mod_level", t, NoKey, NoArg, r.res,
                             "global", "AccessError", <<>>)
                          EXCEPT !.args = args]
    /\ nsets' = nsets + 1
    /\ UNCHANGED <<env, compat, slot, fut, stack, pend>>

(* ------------------------------------------------------------------ *)
(* context.rs CTX::new_scoped / api::scope, task.rs LocalKey::scope    *)
(* ------------------------------------------------------------------ *)
(* a new_scoped that clones the Scope of the installed task copy, if    *)
(* the calling thread has one                                           *)
new_scoped_local_from_task(g, ident, key) ==
    LET T == {t \in Threads : slot[t] # <<>> /\ slot[t][1][key.logscope].initialized}
        src == IF T = {} THEN g ELSE slot[CHOOSE t \in T : TRUE][1]
        logmod == src[key.logscope]
        local == [Context_default EXCEPT ![logmod.lm] = to_scoped(logmod, ident)]
    IN  [local EXCEPT ![logmod.lm] = add_submodule(@, key)]

(* the task-local Context new_scoped builds for key *)
new_scoped_local(g, ident, key) ==
    LET logmod == g[key.logscope]
        local == [Context_default EXCEPT ![logmod.lm] = to_scoped(logmod, ident)]
    IN  [local EXCEPT ![logmod.lm] = add_submodule(@, key)]

(* LocalKey::scope: the wrapper as constructed; key notes the key the   *)
(* override was requested for                                           *)
LocalKey_scope(value, key) ==
    [st |-> "idle", slot |-> <<value>>, future |-> TRUE, key |-> key]

NextFuture == CHOOSE w \in Futures : fut[w].st = "unused" /\
                  \A v \in Futures : fut[v].st = "unused" => w <= v

(* api::scope on thread t, as long as fewer than max wrappers were made *)
ApiScope(t, key, max) ==
    /\ \E w \in 1..max : fut[w].st = "unused"
    /\ IF get_mod(global, key.logscope) # "Ok"
       THEN /\ last' = Call("scope", t, key, NoArg, "ScopeNotInitialized",
                            "global", "AccessError", <<>>)
            /\ UNCHANGED fut
       ELSE LET w == NextFuture
                local == new_scoped_local(global, Idents[w], key)
                diag == hclog_internal(Debug1, slot[t], global)
            IN  /\ fut' = IF diag.panic THEN fut
                          ELSE [fut EXCEPT ![w] = LocalKey_scope(local, key)]
                /\ last' = Call("scope", t, key, NoArg,
                                IF diag.panic THEN "panic" ELSE "Ok",
                                "global", "AccessError", diag.sent)
    /\ UNCHANGED <<global, env, compat, slot, stack, nsets, pend>>

(* ------------------------------------------------------------------ *)
(* task.rs: LocalKey::scope_inner, TaskLocalFuture::poll and drop      *)
(* ------------------------------------------------------------------ *)
(* an entry that leaves both slots as they are *)
scope_inner_no_swap(wslot, tls) == [wslot |-> wslot, tls |-> tls]

(* scope_inner, entry: mem::swap(slot, &mut *ref_mut) exchanges the    *)
(* wrapper's slot field (wslot) and the thread's slot (tls)             *)
scope_inner_swap(wslot, tls) == [wslot |-> tls, tls |-> wslot]

(* a Guard whose drop leaves both slots as they are *)
Guard_drop_no_swap(wslot, tls) == [wslot |-> wslot, tls |-> tls]

(* Guard::drop: mem::swap(self.slot, &mut *ref_mut) *)
Guard_drop(wslot, tls) == [wslot |-> tls, tls |-> wslot]

(* TaskLocalFuture::poll: scope_inner is entered and the wrapped       *)
(* future's poll starts.  prev remembers what the thread's slot held    *)
(* before the swap.                                                     *)
PollEnter(t, w) ==
    /\ fut[w].st = "idle" /\ fut[w].future
    /\ LET s == scope_inner_swap(fut[w].slot, slot[t])
       IN  /\ slot' = [slot EXCEPT ![t] = s.tls]
           /\ fut' = [fut EXCEPT ![w].slot = s.wslot, ![w].st = "polling"]
    /\ stack' = [stack EXCEPT ![t] = <<[w |-> w, prev |-> slot[t]]>> \o @]
    /\ last' = NoCall
    /\ UNCHANGED <<global, env, compat, nsets, pend>>

(* the wrapped future returns Pending or Ready, or panics: the Guard is *)
(* dropped on each of these paths; on Ready the closure has set the     *)
(* future to None before                                                *)
PollExit(t, how) ==
    /\ stack[t] # <<>>
    /\ LET w == Frame(t)
           s == Guard_drop(fut[w].slot, slot[t])
       IN  /\ fut[w].st = "polling"
           /\ slot' = [slot EXCEPT ![t] = s.tls]
           /\ fut' = [fut EXCEPT ![w].slot = s.wslot,
                                 ![w].st = IF how = "panic" THEN "panicked" ELSE "idle",
                                 ![w].future = (how # "ready")]
    /\ stack' = [stack EXCEPT ![t] = Tail(@)]
    /\ last' = NoCall
    /\ UNCHANGED <<global, env, compat, nsets, pend>>

(* the task identity of the override installed in a slot, if any *)
IdentOf(sl) ==
    IF sl = <<>> THEN {}
    ELSE UNION {{sl[1][sk].env_ident[i] : i \in 1..Len(sl[1][sk].env_ident)} :
                sk \in ScopeKeys}

(* PinnedDrop::drop of a wrapper that is not being polled.  With drop   *)
(* glue and a live future, scope_inner swaps the wrapper's value in,    *)
(* the closure drops the future, and the Guard swaps back; then the     *)
(* wrapper's fields are released.  No other code of the thread runs in  *)
(* between.  The step records the identity of the override that was     *)
(* installed while the future's destructor ran.                         *)
DropFuture(t, w, needs_drop) ==
    /\ fut[w].st \in {"idle", "panicked"}
    /\ LET inner == needs_drop /\ fut[w].future
           s1 == scope_inner_swap(fut[w].slot, slot[t])
           s2 == Guard_drop(s1.wslot, s1.tls)
       IN  /\ slot' = [slot EXCEPT ![t] = IF inner THEN s2.tls ELSE slot[t]]
           /\ last' = [Step("drop", t, w) EXCEPT
                          !.local = IF needs_drop THEN "needs_drop" ELSE "no_drop_glue",
                          !.via = IF inner THEN "task" ELSE "global",
                          !.arg = FlagsArg(IdentOf(IF inner THEN s1.tls ELSE slot[t]))]
    /\ fut' = [fut EXCEPT ![w] = [FutInit EXCEPT !.st = "dropped"]]
    /\ UNCHANGED <<global, env, compat, stack, nsets, pend>>

ExitPaths == {"pending", "ready", "panic"}

(* Spec: every thread makes API calls and polls the override           *)
Next ==
    \/ \E t \in Threads : ApiInit(t, InitArgs)
    \/ \E t \in Threads, ks \in AddInputs : ApiAddSubmodules(t, ks)
    \/ \E t \in Threads, k \in InputKeys, l \in TestLevels : ApiTestLog(t, k, l)
    \/ \E t \in Threads, k \in InputKeys : ApiHasModule(t, k)
    \/ \E t \in Threads, k \in InputKeys, l \in TestLevels : ApiLog(t, k, l)
    \/ \E t \in Threads, k \in InputKeys, in \in SetterInputs :
           ApiSetter(t, in[1], k, in[2])
    \/ \E t \in Threads, k \in AppKeys : ApiScope(t, k, MaxFutures)
    \/ \E t \in Threads, w \in Futures : PollEnter(t, w)
    \/ \E t \in Threads, how \in ExitPaths : PollExit(t, how)
    \/ \E t \in Threads, w \in Futures, nd \in BOOLEAN : DropFuture(t, w, nd)

Spec == Init /\ [][Next]_vars

(* SpecNested: overrides are constructed and polled inside one another  *)
(* on the executor thread.                                              *)
Executor == CHOOSE t \in Threads : \A u \in Threads : t <= u

NextNested ==
    \/ ApiInit(Executor, InitArgs)
    \/ \E ks \in AddInputs : ApiAddSubmodules(Executor, ks)
    \/ \E k \in InputKeys, l \in TestLevels : ApiTestLog(Executor, k, l)
    \/ \E k \in InputKeys, in \in SetterInputs :
           ApiSetter(Executor, in[1], k, in[2])
    \/ \E k \in AppKeys : ApiScope(Executor, k, MaxNested)
    \/ \E w \in Futures : PollEnter(Executor, w)
    \/ \E how \in ExitPaths : PollExit(Executor, how)
    \/ \E w \in Futures, nd \in BOOLEAN : DropFuture(Executor, w, nd)

SpecNested == Init /\ [][NextNested]_vars

(* SpecRegistry: the Global Registry without overrides.  Every thread  *)
(* may call init, with the compat initialization of two calls           *)
(* interleaving; the executor thread registers keys (out of order, and  *)
(* keys that declare their own level, sink or options), configures and  *)
(* reads.                                                               *)
InitArgs2 ==
    [name |-> "svc2", level |-> Debug5, facade |-> "StdErr",
     options |-> Options_add(Options_default, {"SCOPE"})]
InitChoices == {InitArgs, InitArgs2}

RegKeys == {AppKey(i) : i \in 0..MaxRegKey}
KeyLvl == [AppKey(1) EXCEPT !.init_level = <<Debug5>>]
KeySys == [AppKey(1) EXCEPT !.init_facade = <<"Syslog">>]
KeyOpt == [AppKey(1) EXCEPT !.init_options = <<{"SEVERITY", "SCOPE"}>>]
KeyAll ==
    [AppKey(1) EXCEPT !.init_level = <<Debug5>>, !.init_facade = <<"Syslog">>,
                      !.init_options = <<{"TIMESTAMP", "SCOPE"}>>]
DeclKeys == {KeyLvl, KeySys, KeyOpt, KeyAll}
RegAddInputs == {<<k>> : k \in RegKeys \cup DeclKeys}
RegInputKeys == RegKeys \cup {Internal}
RegLevels == {Off, Debug10}
RegModules == {"_all", "k1", "hclog", "nokey"}

NextRegistry ==
    \/ \E t \in Threads, a \in InitChoices : ApiInitBegin(t, a)
    \/ \E t \in Threads : ApiInitCompat(t)
    \/ \E ks \in RegAddInputs : ApiAddSubmodules(Executor, ks)
    \/ \E k \in RegInputKeys, l \in RegLevels : ApiTestLog(Executor, k, l)
    \/ \E k \in RegInputKeys : ApiHasModule(Executor, k)
    \/ \E k \in RegInputKeys : ApiLog(Executor, k, Info)
    \/ \E k \in RegInputKeys, in \in SetterInputs :
           ApiSetter(Executor, in[1], k, in[2])
    \/ \E m \in RegModules, l \in SetLevels : ApiSetModLevel(Executor, m, l)

SpecRegistry == Init /\ [][NextRegistry]_vars

(* SpecCLog: overrides requested for a key of the library's own Scope  *)
(* (InternalLogKeys is public), on the executor thread.  init runs with *)
(* or without LOGCOMPAT, so LogCompat is registered by a later init or  *)
(* by add_submodules, before or after an override was constructed.  No  *)
(* call initializes the Lib Scope, whose key lib0 is used all the same. *)
InitArgsPlain ==
    [InitArgs EXCEPT !.options = Options_sub(Options_default, {"LOGCOMPAT"})]
LibKey ==
    [logscope |-> Lib, log_key |-> 0, name |-> "lib0",
     init_level |-> <<>>, init_facade |-> <<>>, init_options |-> <<>>]
CLogAddInputs == {<<LogCompat>>, <<AppKey(0)>>, <<LibKey>>}
CLogScopeKeys == {Internal, AppKey(0), LibKey}
CLogReadKeys == {Internal, LogCompat, AppKey(0), LibKey}
CLogLevels == {Info, Debug10}

NextCLog ==
    \/ \E a \in {InitArgsPlain, InitArgs} : ApiInit(Executor, a)
    \/ \E ks \in CLogAddInputs : ApiAddSubmodules(Executor, ks)
    \/ \E k \in CLogReadKeys, l \in CLogLevels : ApiTestLog(Executor, k, l)
    \/ \E k \in CLogReadKeys, l \in CLogLevels : ApiLog(Executor, k, l)
    \/ \E k \in CLogReadKeys : ApiHasModule(Executor, k)
    \/ \E k \in CLogReadKeys, in \in SetterInputs :
           ApiSetter(Executor, in[1], k, in[2])
    \/ \E k \in CLogScopeKeys : ApiScope(Executor, k, MaxFutures)
    \/ \E w \in Futures : PollEnter(Executor, w)
    \/ \E how \in ExitPaths : PollExit(Executor, how)
    \/ \E w \in Futures, nd \in BOOLEAN : DropFuture(Executor, w, nd)

SpecCLog == Init /\ [][NextCLog]_vars

(* SpecSubmodule: one Application key, registered with or without a    *)
(* declared syslog sink, configured by the executor thread with every   *)
(* level, the EXACT_LVL_MATCH and TIMESTAMP options and two sinks, and  *)
(* tested at every level.                                               *)
Key0Sys == [AppKey(0) EXCEPT !.init_facade = <<"Syslog">>]
SubAddInputs == {<<AppKey(0)>>, <<Key0Sys>>}
SubFlags == {{"EXACT_LVL_MATCH"}, {"TIMESTAMP"}}
SubFacades == {"StdErr", "Syslog"}
SubSetterInputs ==
    ({"set_level"} \X {LvlArg(l) : l \in Levels})
    \cup ({"set_logdest"} \X {FacadeArg(f) : f \in SubFacades})
    \cup ({"set_module_options"} \X {FlagsArg(o) : o \in SubFlags})
    \cup ({"unset_module_options"} \X {FlagsArg(o) : o \in SubFlags})
    \cup ({"reset_module_options"} \X {NoArg})

NextSubmodule ==
    \/ ApiInit(Executor, InitArgs)
    \/ \E ks \in SubAddInputs : ApiAddSubmodules(Executor, ks)
    \/ \E l \in Levels : ApiTestLog(Executor, AppKey(0), l)
    \/ \E in \in SubSetterInputs :
           ApiSetterUpTo(Executor, in[1], AppKey(0), in[2], MaxSubSets)

SpecSubmodule == Init /\ [][NextSubmodule]_vars

(* SpecOptions: one Application key seeded with Options::default(),    *)
(* then up to MaxOptSets calls that set or unset one of the 15 flags.   *)
OptSetterInputs ==
    ({"set_module_options"} \X {FlagsArg({f}) : f \in AllFlags})
    \cup ({"unset_module_options"} \X {FlagsArg({f}) : f \in AllFlags})

NextOptions ==
    \/ ApiInit(Executor, InitArgs)
    \/ ApiAddSubmodules(Executor, <<AppKey(0)>>)
    \/ \E in \in OptSetterInputs :
           ApiSetterUpTo(Executor, in[1], AppKey(0), in[2], MaxOptSets)

SpecOptions == Init /\ [][NextOptions]_vars

(* SpecModLevel: the Application keys k0 and k1, registered in either   *)
(* order, and up to MaxModSets calls of set_mod_level.                  *)
Seg(module, level) == <<module, ":", level>>

ModLevelInputs ==
    { <<<<Seg("k0", "debug9"), Seg("_all", "debug10")>>>>,
      <<<<Seg("_all", "notice")>>, <<Seg("k1", "warn")>>>>,
      <<<<Seg("k0", "warn"), Seg("k0", "error")>>>>,
      <<<<Seg("k1", "emerg")>>>>,
      <<<<Seg("hclog", "debug1")>>>>,
      <<<<Seg("K1", "info")>>>>,
      <<<<Seg("_ALL", "INFO")>>>>,
      <<<<Seg("k0", "Debug9")>>>>,
      <<<<<<":", "warn">>>>>>,
      <<<<<<"_all", ":">>>>>>,
      <<<<<<"k0">>>>>>,
      <<<<<<>>>>>>,
      <<<<Seg("_all", "warning")>>>>,
      <<<<Seg("nokey", "warn")>>>>,
      <<<<Seg("nokey", "warning")>>>>,
      <<<<Seg("k0", "debug5"), Seg("nokey", "warn")>>>> }

ModAddInputs == {<<AppKey(0)>>, <<AppKey(1)>>}

NextModLevel ==
    \/ ApiInit(Executor, InitArgs)
    \/ \E ks \in ModAddInputs : ApiAddSubmodules(Executor, ks)
    \/ \E args \in ModLevelInputs : ApiSetModLevelArgs(Executor, args)

SpecModLevel == Init /\ [][NextModLevel]_vars

(* SpecInner: overrides for the keys of the CLog Scope, constructed and *)
(* polled inside one another on the executor thread.  Inside such an    *)
(* override the lD1!(Internal, ..) of new_scoped resolves in the task   *)
(* copy, so an inner override can be constructed.                       *)
InnerKeys == {Internal, LogCompat}

NextInner ==
    \/ ApiInit(Executor, InitArgs)
    \/ \E k \in InnerKeys, l \in TestLevels : ApiTestLog(Executor, k, l)
    \/ \E k \in InnerKeys, in \in SetterInputs :
           ApiSetter(Executor, in[1], k, in[2])
    \/ \E k \in InnerKeys : ApiScope(Executor, k, MaxNested)
    \/ \E w \in Futures : PollEnter(Executor, w)
    \/ \E how \in ExitPaths : PollExit(Executor, how)

SpecInner == Init /\ [][NextInner]_vars

(* SpecTask: the executor thread registers keys and calls set_mod_level *)
(* from outside and from inside the poll of an override for k0.          *)
TaskModules == {"_all", "k0"}

NextTask ==
    \/ ApiInit(Executor, InitArgs)
    \/ \E ks \in AddInputs : ApiAddSubmodules(Executor, ks)
    \/ \E m \in TaskModules, l \in SetLevels : ApiSetModLevel(Executor, m, l)
    \/ \E l \in CLogLevels : ApiTestLog(Executor, AppKey(0), l)
    \/ ApiScope(Executor, AppKey(0), MaxFutures)
    \/ \E w \in Futures : PollEnter(Executor, w)
    \/ \E how \in ExitPaths : PollExit(Executor, how)

SpecTask == Init /\ [][NextTask]_vars

(* ------------------------------------------------------------------ *)
(* message.rs: Message and its Display.  The rendered text is the       *)
(* sequence of the pieces written, in the order of the write! calls.    *)
(* ------------------------------------------------------------------ *)
Message_new(options, binname, file, func, line, fmt) ==
    [options |-> options, binname |-> binname, severity |-> <<>>,
     modname |-> <<>>, scope |-> <<>>, scope_ident |-> <<>>,
     file |-> file, func |-> func, line |-> line, fmt |-> fmt]

set_severity(self, lvl) ==
    IF Options_has(self.options, {"SEVERITY"})
    THEN [self EXCEPT !.severity = <<lvl>>] ELSE self

set_modname(self, name) ==
    IF Options_has(self.options, {"MODULE"})
    THEN [self EXCEPT !.modname = <<name>>] ELSE self

set_scope(self, scope, ident) ==
    IF Options_has(self.options, {"SCOPE"})
    THEN [self EXCEPT !.scope = <<scope>>, !.scope_ident = ident] ELSE self

(* a Display that writes nothing after a binary name without pid and tid *)
Message_fmt_no_fallback(self) ==
    LET has(f) == Options_has(self.options, {f})
    IN  (IF has("DATESTAMP") THEN <<"date", " ">> ELSE <<>>)
        \o (IF has("TIMESTAMP")
            THEN <<IF has("NANOSEC") THEN "time.nanos" ELSE "time", " ">>
            ELSE <<>>)
        \o (IF has("BINNAME") THEN <<self.binname>> ELSE <<>>)
        \o (IF has("PID")
            THEN IF has("TID") THEN <<"[", "pid", "/", "tid", "]", " ">>
                 ELSE <<"[", "pid", "]", " ">>
            ELSE IF has("TID") THEN <<"[", "tid", "]", " ">>
            ELSE <<>>)
        \o (IF self.severity # <<>>
            THEN <<Level_to_string(self.severity[1]), " ">> ELSE <<>>)
        \o (IF self.modname # <<>> THEN <<self.modname[1], " ">> ELSE <<>>)
        \o (IF self.scope # <<>>
            THEN IF self.scope_ident # <<>>
                 THEN <<self.scope[1], "[", self.scope_ident[1], "]", " ">>
                 ELSE <<self.scope[1], " ">>
            ELSE <<>>)
        \o (IF has("FILE")
            THEN IF has("LINE") THEN <<self.file, ":", self.line, " ">>
                 ELSE <<self.file, " ">>
            ELSE <<>>)
        \o (IF has("FUNC") /\ self.func # "" THEN <<self.func, " ">> ELSE <<>>)
        \o <<self.fmt>>

(* impl Display for Message *)
Message_fmt(self) ==
    LET has(f) == Options_has(self.options, {f})
    IN  (IF has("DATESTAMP") THEN <<"date", " ">> ELSE <<>>)
        \o (IF has("TIMESTAMP")
            THEN <<IF has("NANOSEC") THEN "time.nanos" ELSE "time", " ">>
            ELSE <<>>)
        \o (IF has("BINNAME") THEN <<self.binname>> ELSE <<>>)
        \o (IF has("PID")
            THEN IF has("TID") THEN <<"[", "pid", "/", "tid", "]", " ">>
                 ELSE <<"[", "pid", "]", " ">>
            ELSE IF has("TID") THEN <<"[", "tid", "]", " ">>
            ELSE IF has("BINNAME") THEN <<" ">>
            ELSE <<>>)
        \o (IF self.severity # <<>>
            THEN <<Level_to_string(self.severity[1]), " ">> ELSE <<>>)
        \o (IF self.modname # <<>> THEN <<self.modname[1], " ">> ELSE <<>>)
        \o (IF self.scope # <<>>
            THEN IF self.scope_ident # <<>>
                 THEN <<self.scope[1], "[", self.scope_ident[1], "]", " ">>
                 ELSE <<self.scope[1], " ">>
            ELSE <<>>)
        \o (IF has("FILE")
            THEN IF has("LINE") THEN <<self.file, ":", self.line, " ">>
                 ELSE <<self.file, " ">>
            ELSE <<>>)
        \o (IF has("FUNC") /\ self.func # "" THEN <<self.func, " ">> ELSE <<>>)
        \o <<self.fmt>>

(* SpecMessage: a Message as Submodule::do_log builds it, for every set *)
(* of the flags Display reads, an empty or non-empty function name and  *)
(* a Global or Task scope, is pending on the executor thread; the sink  *)
(* renders it with to_string().                                         *)
MsgFlags == {"DATESTAMP", "TIMESTAMP", "NANOSEC", "BINNAME", "PID", "TID",
             "SEVERITY", "MODULE", "SCOPE", "FILE", "LINE", "FUNC"}
MsgFuncs == {"", "main"}
MsgScopes == {<<"Global", <<>>>>, <<"Task", <<"Task1">>>>}

InitMessage ==
    /\ global = Context_default
    /\ env \in EnvChoices
    /\ compat = FALSE
    /\ slot = [t \in Threads |-> <<>>]
    /\ fut = [w \in Futures |-> FutInit]
    /\ stack = [t \in Threads |-> <<>>]
    /\ nsets = 0
    /\ \E o \in SUBSET MsgFlags, func \in MsgFuncs, sc \in MsgScopes :
         pend = [t \in Threads |->
                   IF t = Executor
                   THEN <<set_scope(
                            set_modname(
                              set_severity(
                                Message_new(o, "svc", "main.rs", func, "line", "text"),
                                Error),
                              "k0"),
                            sc[1], sc[2])>>
                   ELSE <<>>]
    /\ last = NoCall

(* the sink's msg.to_string() *)
MessageToString(t) ==
    /\ pend[t] # <<>>
    /\ last' = [Step("to_string", t, 0) EXCEPT !.sent = <<Message_fmt(pend[t][1])>>]
    /\ pend' = [pend EXCEPT ![t] = <<>>]
    /\ UNCHANGED <<global, env, compat, slot, fut, stack, nsets>>

NextMessage == MessageToString(Executor)

SpecMessage == InitMessage /\ [][NextMessage]_vars

(* ------------------------------------------------------------------ *)
(* SpecLock: the RwLock of GLOBAL_CONTEXT, acquisition by acquisition.  *)
(* No override is installed, so every call falls through to the global  *)
(* Context (try_with answers AccessError).  pend[t] holds the calls in  *)
(* progress on thread t, innermost first; a frame notes where the call  *)
(* stands and the guard it holds:                                       *)
(*   pc "read" / "write": at GLOBAL_CONTEXT.read() / .write()            *)
(*   pc "body": guard taken, closure or loop body next                  *)
(*   pc "sink": inside Submodule::do_log, at logdest.log                *)
(*   pc "diag": the hclog!(.., Internal, ..) issued by the call runs    *)
(*   pc "after_diag": that diagnostic returned                          *)
(*   pc "panicked": the thread unwound out of a write guard             *)
(* ------------------------------------------------------------------ *)
LockFrame(fn, pc, key, lvl, arg) ==
    [fn |-> fn, pc |-> pc, guard |-> "none", key |-> key, lvl |-> lvl,
     arg |-> arg, segs |-> <<>>, entry |-> <<>>]

(* RwLockReadGuard / RwLockWriteGuard alive on the stack of thread t *)
holds_read(t) == \E i \in 1..Len(pend[t]) : pend[t][i].guard = "read"
holds_write(t) == \E i \in 1..Len(pend[t]) : pend[t][i].guard = "write"

(* std::sync::RwLock: the lock is poisoned once a write guard was       *)
(* dropped by a panicking thread; hclog never calls clear_poison        *)
poisoned == \E t \in Threads : pend[t] # <<>> /\ Head(pend[t]).pc = "panicked"

(* the calling thread is at an acquisition of the lock *)
at_lock(t) == pend[t] # <<>> /\ Head(pend[t]).pc \in {"read", "write"}

(* the Registry of a process that ran init and registered its first key *)
LockRegistry(e) ==
    LET g1 == InternalLogKeys_init(Context_default, InitName, e)
        g2 == init_mod(g1, Application, InitName, InitLevel, InitFacade,
                       InitOptions, e)
    IN  [g2 EXCEPT ![Application] = add_submodule(@, AppKey(0))]

InitLock ==
    /\ env \in EnvChoices
    /\ global = LockRegistry(env)
    /\ compat = FALSE
    /\ slot = [t \in Threads |-> <<>>]
    /\ fut = [w \in Futures |-> FutInit]
    /\ stack = [t \in Threads |-> <<>>]
    /\ nsets = 0
    /\ pend = [t \in Threads |-> <<>>]
    /\ last = NoCall

(* the innermost call of thread t returns res.  A call issued by        *)
(* hclog!(.., Internal, ..) returns into the macro: tX! unwraps         *)
(* test_log and the log that follows an Ok(true) is unwrapped too.      *)
LockReturn(t, res, sent) ==
    LET f == Head(pend[t])
        rest == Tail(pend[t])
    IN  IF rest = <<>>
        THEN /\ pend' = [pend EXCEPT ![t] = <<>>]
             /\ last' = Call(f.fn, t, f.key, LvlArg(f.lvl), res, "global",
                             "AccessError", sent)
        ELSE IF f.fn = "test_log" /\ res = "Ok(true)"
        THEN /\ pend' = [pend EXCEPT ![t] =
                            <<LockFrame("log", "read", f.key, f.lvl, <<>>)>> \o rest]
             /\ UNCHANGED last
        ELSE IF (f.fn = "test_log" /\ res = "Ok(false)") \/ (f.fn = "log" /\ res = "Ok")
        THEN /\ pend' = [pend EXCEPT ![t] =
                            <<[Head(rest) EXCEPT !.pc = "after_diag"]>> \o Tail(rest)]
             /\ UNCHANGED last
        ELSE /\ pend' = [pend EXCEPT ![t] = <<>>]
             /\ last' = Call(rest[Len(rest)].fn, t, rest[Len(rest)].key,
                             LvlArg(rest[Len(rest)].lvl), "panic", "global",
                             "AccessError", <<>>)

(* api::log, api::test_log (CTX::call) and api::scope (CTX::new_scoped) *)
(* up to their GLOBAL_CONTEXT.read()                                    *)
LockCallRead(t, fn, key, lvl) ==
    /\ pend[t] = <<>>
    /\ fn = "scope" => \E w \in 1..MaxFutures : fut[w].st = "unused"
    /\ pend' = [pend EXCEPT ![t] = <<LockFrame(fn, "read", key, lvl, <<>>)>>]
    /\ UNCHANGED <<global, env, compat, slot, fut, stack, nsets, last>>

(* api::set_level (CTX::call_mut), api::add_submodules and              *)
(* api::set_mod_level (CTX::get_mut) up to their GLOBAL_CONTEXT.write() *)
LockCallWrite(t, fn, key, lvl, arg) ==
    /\ pend[t] = <<>>
    /\ nsets < MaxModSets
    /\ pend' = [pend EXCEPT ![t] = <<LockFrame(fn, "write", key, lvl, arg)>>]
    /\ nsets' = nsets + 1
    /\ UNCHANGED <<global, env, compat, slot, fut, stack, last>>

(* GLOBAL_CONTEXT.read()?: Err(PoisonError) becomes ContextLock; the    *)
(* guard is handed out while no other thread holds the write guard      *)
RwLock_read(t) ==
    /\ pend[t] # <<>>
    /\ Head(pend[t]).pc = "read"
    /\ IF poisoned
       THEN LockReturn(t, "ContextLock", <<>>)
       ELSE /\ \A u \in Threads \ {t} : ~holds_write(u)
            /\ pend' = [pend EXCEPT ![t][1].guard = "read", ![t][1].pc = "body"]
            /\ UNCHANGED last
    /\ UNCHANGED <<global, env, compat, slot, fut, stack, nsets>>

(* a write acquisition that hands out the guard of a poisoned lock *)
RwLock_write_recover(t) ==
    /\ pend[t] # <<>>
    /\ Head(pend[t]).pc = "write"
    /\ \A u \in Threads \ {t} : ~holds_write(u) /\ ~holds_read(u)
    /\ pend' = [pend EXCEPT ![t][1].guard = "write", ![t][1].pc = "body",
                            ![t][1].segs =
                                IF Head(pend[t]).fn = "set_mod_level"
                                THEN flat_map_split(Head(pend[t]).arg) ELSE <<>>,
                            ![t][1].entry = <<global>>]
    /\ UNCHANGED <<global, env, compat, slot, fut, stack, nsets, last>>

(* GLOBAL_CONTEXT.write()?: the guard is handed out while no other      *)
(* thread holds a guard; set_mod_level then iterates the segments of    *)
(* its arguments.  entry notes the Context the guard was taken on.      *)
RwLock_write(t) ==
    /\ pend[t] # <<>>
    /\ Head(pend[t]).pc = "write"
    /\ IF poisoned
       THEN LockReturn(t, "ContextLock", <<>>)
       ELSE /\ \A u \in Threads \ {t} : ~holds_write(u) /\ ~holds_read(u)
            /\ pend' = [pend EXCEPT ![t][1].guard = "write", ![t][1].pc = "body",
                            ![t][1].segs =
                                IF Head(pend[t]).fn = "set_mod_level"
                                THEN flat_map_split(Head(pend[t]).arg) ELSE <<>>,
                            ![t][1].entry = <<global>>]
            /\ UNCHANGED last
    /\ UNCHANGED <<global, env, compat, slot, fut, stack, nsets>>

(* the closure of api::log on the read-locked global Context, up to     *)
(* do_log's write to the sink or the lE!(Internal, ..) of the None arm  *)
LockLogBody(t) ==
    /\ pend[t] # <<>>
    /\ Head(pend[t]).fn = "log" /\ Head(pend[t]).pc = "body"
    /\ LET f == Head(pend[t])
           m == get_submodule(global[f.key.logscope], f.key)
       IN  IF get_mod(global, f.key.logscope) # "Ok"
           THEN LockReturn(t, "ScopeNotInitialized", <<>>)
           ELSE IF m # <<>> /\ will_log(m[1], f.lvl)
           THEN pend' = [pend EXCEPT ![t][1].pc = "sink"] /\ UNCHANGED last
           ELSE IF m # <<>> THEN LockReturn(t, "Ok", <<>>)
           ELSE /\ pend' = [pend EXCEPT ![t] =
                               <<LockFrame("test_log", "read", Internal, Error, <<>>),
                                 [f EXCEPT !.pc = "diag"]>> \o Tail(pend[t])]
                /\ UNCHANGED last
    /\ UNCHANGED <<global, env, compat, slot, fut, stack, nsets>>

(* Submodule::do_log: logdest.log(self.logsev, msg) returns; the read   *)
(* guard of CTX::call is dropped after the closure                      *)
LockSinkWrite(t) ==
    /\ pend[t] # <<>>
    /\ Head(pend[t]).pc = "sink"
    /\ LET f == Head(pend[t])
           r == LogF(global, f.key, f.lvl, NoDiag)
       IN  LockReturn(t, r.res, r.sent)
    /\ UNCHANGED <<global, env, compat, slot, fut, stack, nsets>>

(* the None arm of api::log after its lE!: Err(KeyNotInitialized) *)
LockLogAbsent(t) ==
    /\ pend[t] # <<>>
    /\ Head(pend[t]).fn = "log" /\ Head(pend[t]).pc = "after_diag"
    /\ LockReturn(t, "KeyNotInitialized", <<>>)
    /\ UNCHANGED <<global, env, compat, slot, fut, stack, nsets>>

(* the closure of api::test_log on the read-locked global Context *)
LockTestLogBody(t) ==
    /\ pend[t] # <<>>
    /\ Head(pend[t]).fn = "test_log" /\ Head(pend[t]).pc = "body"
    /\ LockReturn(t, TestLogF(global, Head(pend[t]).key, Head(pend[t]).lvl).res, <<>>)
    /\ UNCHANGED <<global, env, compat, slot, fut, stack, nsets>>

(* CTX::new_scoped with the guard `global` taken: get_mod, to_scoped,   *)
(* add_submodule, then the lD1!(Internal, ..)                           *)
LockScopeBody(t) ==
    /\ pend[t] # <<>>
    /\ Head(pend[t]).fn = "scope" /\ Head(pend[t]).pc = "body"
    /\ IF get_mod(global, Head(pend[t]).key.logscope) # "Ok"
       THEN LockReturn(t, "ScopeNotInitialized", <<>>)
       ELSE /\ pend' = [pend EXCEPT ![t] =
                           <<LockFrame("test_log", "read", Internal, Debug1, <<>>),
                             [Head(pend[t]) EXCEPT !.pc = "diag"]>> \o Tail(pend[t])]
            /\ UNCHANGED last
    /\ UNCHANGED <<global, env, compat, slot, fut, stack, nsets>>

(* CTX::new_scoped after its lD1!: TASK_CONTEXT.scope(local, future) *)
LockScopeFinish(t) ==
    /\ pend[t] # <<>>
    /\ Head(pend[t]).fn = "scope" /\ Head(pend[t]).pc = "after_diag"
    /\ LET w == NextFuture
           key == Head(pend[t]).key
       IN  fut' = [fut EXCEPT ![w] =
                      LocalKey_scope(new_scoped_local(global, Idents[w], key), key)]
    /\ LockReturn(t, "Ok", <<>>)
    /\ UNCHANGED <<global, env, compat, slot, stack, nsets>>

(* the closure of api::set_level on the write-locked global Context *)
LockSetLevelBody(t) ==
    /\ pend[t] # <<>>
    /\ Head(pend[t]).fn = "set_level" /\ Head(pend[t]).pc = "body"
    /\ LET f == Head(pend[t])
           r == SetterF(global, "set_level", f.key, f.lvl, env)
       IN  /\ global' = r.ctx
           /\ LockReturn(t, r.res, <<>>)
    /\ UNCHANGED <<env, compat, slot, fut, stack, nsets>>

(* the loop of api::add_submodules under its write guard *)
LockAddBody(t) ==
    /\ pend[t] # <<>>
    /\ Head(pend[t]).fn = "add_submodules" /\ Head(pend[t]).pc = "body"
    /\ LET r == AddAll(global, Head(pend[t]).arg)
       IN  /\ global' = r.ctx
           /\ LockReturn(t, r.res, <<>>)
    /\ UNCHANGED <<env, compat, slot, fut, stack, nsets>>

(* add_submodules runs the caller's LogKey impl under the write guard   *)
(* (init_level, log_key, Submodule::new's key.to_string()); a panic in  *)
(* it unwinds through the guard, whose drop poisons the lock            *)
LockAddPanic(t) ==
    /\ pend[t] # <<>>
    /\ Head(pend[t]).fn = "add_submodules" /\ Head(pend[t]).pc = "body"
    /\ pend' = [pend EXCEPT ![t] =
                   <<[Head(pend[t]) EXCEPT !.pc = "panicked", !.guard = "none"]>>]
    /\ last' = Call("add_submodules", t, Head(pend[t]).key, NoArg, "panic",
                    "global", "AccessError", <<>>)
    /\ UNCHANGED <<global, env, compat, slot, fut, stack, nsets>>

(* a set_mod_level that gives up its write guard after every segment    *)
(* and takes it again for the next                                      *)
LockSetModLevelSeg_relock(t) ==
    /\ pend[t] # <<>>
    /\ Head(pend[t]).fn = "set_mod_level" /\ Head(pend[t]).pc = "body"
    /\ LET f == Head(pend[t])
           r == set_mod_level(global, <<Head(f.segs)>>)
       IN  /\ global' = r.ctx
           /\ IF r.res # "Ok" \/ Tail(f.segs) = <<>>
              THEN LockReturn(t, r.res, <<>>)
              ELSE /\ pend' = [pend EXCEPT ![t][1].segs = Tail(f.segs),
                                           ![t][1].guard = "none"]
                   /\ UNCHANGED last
    /\ UNCHANGED <<env, compat, slot, fut, stack, nsets>>

(* one turn of the loop of api::set_mod_level under the write guard     *)
(* taken before the loop: the next segment is split, parsed and         *)
(* applied; an error returns at once, the last segment returns Ok       *)
LockSetModLevelSeg(t) ==
    /\ pend[t] # <<>>
    /\ Head(pend[t]).fn = "set_mod_level" /\ Head(pend[t]).pc = "body"
    /\ LET f == Head(pend[t])
           r == set_mod_level(global, <<Head(f.segs)>>)
       IN  /\ global' = r.ctx
           /\ IF r.res # "Ok" \/ Tail(f.segs) = <<>>
              THEN LockReturn(t, r.res, <<>>)
              ELSE /\ pend' = [pend EXCEPT ![t][1].segs = Tail(f.segs)]
                   /\ UNCHANGED last
    /\ UNCHANGED <<env, compat, slot, fut, stack, nsets>>

LockKeys == {AppKey(0), AppKey(1)}
LockLevels == {Error}
LockBatches ==
    { <<<<Seg("k0", "warn"), Seg("k1", "error")>>>>,
      <<<<Seg("k0", "debug9")>>, <<Seg("k0", "bogus"), Seg("_all", "info")>>>>,
      <<<<Seg("_all", "error"), <<"k0">>, Seg("k0", "info")>>>> }

NextLock ==
    \/ \E t \in Threads, fn \in {"log", "test_log"}, k \in LockKeys, l \in LockLevels :
          LockCallRead(t, fn, k, l)
    \/ \E k \in LockKeys : LockCallRead(Executor, "scope", k, Off)
    \/ \E t \in Threads, k \in LockKeys, l \in SetLevels :
          LockCallWrite(t, "set_level", k, l, <<>>)
    \/ \E t \in Threads : LockCallWrite(t, "add_submodules", AppKey(1), Off, <<AppKey(1)>>)
    \/ \E t \in Threads, b \in LockBatches :
          LockCallWrite(t, "set_mod_level", NoKey, Off, b)
    \/ \E t \in Threads : RwLock_read(t)
    \/ \E t \in Threads : RwLock_write(t)
    \/ \E t \in Threads : LockLogBody(t)
    \/ \E t \in Threads : LockSinkWrite(t)
    \/ \E t \in Threads : LockLogAbsent(t)
    \/ \E t \in Threads : LockTestLogBody(t)
    \/ \E t \in Threads : LockScopeBody(t)
    \/ \E t \in Threads : LockScopeFinish(t)
    \/ \E t \in Threads : LockSetLevelBody(t)
    \/ \E t \in Threads : LockAddBody(t)
    \/ \E t \in Threads : LockAddPanic(t)
    \/ \E t \in Threads : LockSetModLevelSeg(t)

SpecLock == InitLock /\ [][NextLock]_vars

TypeOK ==
    /\ nsets \in Nat
    /\ \A t \in Threads : Len(slot[t]) <= 1

(* ------------------------------------------------------------------ *)
(* what a closure of a read operation answers on a given Context       *)
(* ------------------------------------------------------------------ *)
ReadOps == {"log", "test_log", "has_module"}
SetterOps == {in[1] : in \in SetterInputs}

ReadF(c, ctx, sl) ==
    CASE c.op = "test_log" -> TestLogF(ctx, c.key, c.arg.lvl)
      [] c.op = "has_module" -> HasModuleF(ctx, c.key)
      [] OTHER -> LogF(ctx, c.key, c.arg.lvl, hclog_internal(Error, sl, global))

(* the Submodule registered for key in ctx, as a sequence of length <= 1 *)
Registered(ctx, key) ==
    IF ctx[key.logscope].initialized /\ has_submodule(ctx[key.logscope], key)
    THEN get_submodule(ctx[key.logscope], key) ELSE <<>>

(* ------------------------------------------------------------------ *)
(* C1: a log or test_log issued by code that runs outside every poll   *)
(* of an overriding wrapper (on the polling thread between polls, or   *)
(* on another thread) is resolved against the Global Registry: the     *)
(* resolver goes to the global Context and the call returns and sends  *)
(* what the closure answers on the global Context, whatever an         *)
(* override holds for the key.                                         *)
(* ------------------------------------------------------------------ *)
C1_SiblingResolvesGlobal ==
    (last.op \in {"log", "test_log"} /\ last.frame = 0) =>
        /\ last.via = "global"
        /\ last.res = ReadF(last, global, <<>>).res
        /\ last.sent = ReadF(last, global, <<>>).sent

(* another thread polls an override that raised X to Debug10 while a   *)
(* sibling's test_log(X, Debug10) is answered false from Global         *)
C1_Witness ==
    \E t, u \in Threads :
        /\ t # u /\ stack[u] # <<>> /\ slot[u] # <<>>
        /\ last.op = "test_log" /\ last.t = t /\ last.frame = 0
        /\ last.key \in AppKeys /\ last.arg.lvl = Debug10
        /\ Registered(slot[u][1], last.key) # <<>>
        /\ Registered(slot[u][1], last.key)[1].logsev = Debug10
        /\ Registered(global, last.key) # <<>>
        /\ Registered(global, last.key)[1].logsev = InitLevel
        /\ last.res = "Ok(false)"

(* ------------------------------------------------------------------ *)
(* C2: a setter issued inside a poll on a key that is registered in    *)
(* the installed task copy is applied to the task copy and returns Ok, *)
(* and it leaves the global Context as it is; the steps that end the   *)
(* task (poll exit, drop) leave the global Context as it is, too.      *)
(* ------------------------------------------------------------------ *)
C2_InTaskSetterStep ==
    /\ last'.op \in SetterOps
    /\ nsets' # nsets
    /\ last'.frame # 0
    /\ Registered(TaskCtx(slot[last'.t]), last'.key) # <<>>

C2_SetterChangesOnlyTaskCopy ==
    [][ /\ C2_InTaskSetterStep =>
            /\ global' = global
            /\ last'.res = "Ok" /\ last'.via = "task"
            /\ slot'[last'.t] =
                 <<SetterF(TaskCtx(slot[last'.t]), last'.op, last'.key,
                           SetterArg(last'.op, last'.arg), env).ctx>>
        /\ (stack' # stack \/ fut' # fut) => global' = global ]_vars

(* the override has completed; its copy holds X at Debug10 from the    *)
(* in-task set_level while Global still holds the level X was           *)
(* registered with                                                      *)
C2_Witness ==
    \E w \in Futures, k \in AppKeys :
        /\ fut[w].st = "idle" /\ ~fut[w].future /\ fut[w].slot # <<>>
        /\ nsets = 1
        /\ Registered(fut[w].slot[1], k) # <<>>
        /\ Registered(fut[w].slot[1], k)[1].logsev = Debug10
        /\ Registered(global, k) # <<>>
        /\ Registered(global, k)[1].logsev = InitLevel

(* ------------------------------------------------------------------ *)
(* C3: dropping a wrapper whose future has not completed (never        *)
(* polled, suspended between polls, or left by a panic) leaves the     *)
(* dropping thread's slot holding the value it held before the drop;   *)
(* a future with drop glue is destroyed while the wrapper's own        *)
(* Context is installed, and the wrapper is gone after the same step.  *)
(* ------------------------------------------------------------------ *)
C3_DropStep == last'.op = "drop" /\ fut[last'.frame].future /\ fut' # fut

C3_DropRestoresSlot ==
    [][ C3_DropStep =>
            /\ slot' = slot
            /\ fut'[last'.frame].st = "dropped"
            /\ last'.local = "needs_drop" =>
                   /\ last'.via = "task"
                   /\ last'.arg.flags = IdentOf(fut[last'.frame].slot)
                   /\ last'.arg.flags # {} ]_vars

(* an override that has not completed was dropped inside a poll of     *)
(* another one: its future was destroyed under its own identity and    *)
(* the slot holds the polled override again                            *)
C3_Witness ==
    /\ last.op = "drop" /\ last.local = "needs_drop" /\ last.via = "task"
    /\ stack[last.t] # <<>>
    /\ slot[last.t] # <<>>
    /\ IdentOf(slot[last.t]) = {Idents[Frame(last.t)]}
    /\ last.arg.flags = {Idents[last.frame]}
    /\ last.frame # Frame(last.t)

(* ------------------------------------------------------------------ *)
(* C4: a poll of a wrapper installs the wrapper's Context in the       *)
(* polling thread's slot on entry; the exit of the poll (Pending,      *)
(* Ready or unwinding) puts back the value the slot held immediately   *)
(* before that poll, hands the Context the task was running with back  *)
(* to the wrapper and ends the scope_inner call, once; and whenever a  *)
(* poll is in progress each of the three exits can be taken.           *)
(* ------------------------------------------------------------------ *)
C4_InstallOnEntryRestoreOnExit ==
    [][ \A t \in Threads :
          /\ Len(stack'[t]) = Len(stack[t]) + 1 =>
                LET w == Head(stack'[t]).w
                IN  /\ fut[w].slot # <<>>
                    /\ slot'[t] = fut[w].slot
                    /\ fut'[w].slot = slot[t]
                    /\ fut'[w].st = "polling"
          /\ Len(stack'[t]) = Len(stack[t]) - 1 =>
                LET f == Head(stack[t])
                IN  /\ slot'[t] = f.prev
                    /\ fut'[f.w].slot = slot[t]
                    /\ fut'[f.w].st # "polling"
                    /\ \A i \in 1..Len(stack'[t]) : stack'[t][i].w # f.w
          /\ stack[t] # <<>> =>
                \A how \in ExitPaths : ENABLED PollExit(t, how) ]_vars

(* a poll entered inside another override's poll was left by a panic   *)
(* after an in-task set_level: the slot holds the outer override and   *)
(* the wrapper holds its own Context with the level the task set        *)
C4_Witness ==
    \E t \in Threads, w \in Futures, k \in AppKeys :
        /\ fut[w].st = "panicked" /\ fut[w].slot # <<>>
        /\ stack[t] # <<>> /\ Frame(t) # w
        /\ IdentOf(slot[t]) = {Idents[Frame(t)]}
        /\ IdentOf(fut[w].slot) = {Idents[w]}
        /\ Registered(fut[w].slot[1], k) # <<>>
        /\ Registered(fut[w].slot[1], k)[1].logsev = Debug10
        /\ Registered(slot[t][1], k) # <<>>
        /\ Registered(slot[t][1], k)[1].logsev = InitLevel

(* ------------------------------------------------------------------ *)
(* C5: hclog::scope called inside a poll of another override, for a    *)
(* key whose Scope is initialized in Global, returns the new wrapper   *)
(* without failing; a poll of a wrapper entered inside another poll    *)
(* runs with that wrapper's own Context installed, and its exit leaves *)
(* the slot holding the outer override's Context as the outer task     *)
(* had it (its mutations included) when the inner poll was entered.    *)
(* ------------------------------------------------------------------ *)
C5_NestedOverrideSupported ==
    [][ \A t \in Threads :
          /\ (/\ last'.op = "scope" /\ last'.t = t /\ stack[t] # <<>>
              /\ get_mod(global, last'.key.logscope) = "Ok") =>
                /\ last'.res = "Ok"
                /\ \E w \in Futures : fut[w].st = "unused" /\ fut'[w].st = "idle"
          /\ (Len(stack'[t]) = Len(stack[t]) + 1 /\ stack[t] # <<>>) =>
                IdentOf(slot'[t]) = {Idents[Head(stack'[t]).w]}
          /\ (Len(stack'[t]) = Len(stack[t]) - 1 /\ stack'[t] # <<>>) =>
                slot'[t] = Head(stack[t]).prev ]_vars

(* ------------------------------------------------------------------ *)
(* C6: a read operation (log, test_log, has_module) issued inside a    *)
(* poll on a key that is not registered in the installed task copy     *)
(* (whose Scope the copy holds) but is registered in Global returns    *)
(* and sends what the operation's closure answers on the global        *)
(* Context; in particular log does not fail or panic.                  *)
(* ------------------------------------------------------------------ *)
C6_AbsentKeyCase ==
    /\ last.op \in ReadOps /\ last.frame # 0
    /\ get_mod(TaskCtx(slot[last.t]), last.key.logscope) = "Ok"
    /\ Registered(TaskCtx(slot[last.t]), last.key) = <<>>
    /\ Registered(global, last.key) # <<>>

C6_AbsentKeyReadFromGlobal ==
    C6_AbsentKeyCase =>
        /\ last.res = ReadF(last, global, slot[last.t]).res
        /\ last.sent = ReadF(last, global, slot[last.t]).sent
        /\ last.res \notin {"panic", "KeyNotInitialized"}

(* ------------------------------------------------------------------ *)
(* C7: inside a poll of an override requested for key X, operations on *)
(* another key Y of the same Scope that Global has registered resolve  *)
(* against Global: test_log(Y, l) answers what the closure answers on  *)
(* the global Context as it is now, and set_level(Y, l) changes the    *)
(* global Submodule and leaves the installed copy as it is.            *)
(* ------------------------------------------------------------------ *)
C7_OtherKeyCase ==
    /\ last'.frame # 0
    /\ last'.key # fut[last'.frame].key
    /\ last'.key.logscope = fut[last'.frame].key.logscope
    /\ Registered(global, last'.key) # <<>>

C7_OverrideOnlyForRequestedKey ==
    [][ /\ (C7_OtherKeyCase /\ last'.op = "test_log") =>
               last'.res = TestLogF(global, last'.key, last'.arg.lvl).res
        /\ (C7_OtherKeyCase /\ last'.op = "set_level" /\ nsets' # nsets) =>
               /\ global' = SetterF(global, "set_level", last'.key,
                                    last'.arg.lvl, env).ctx
               /\ slot' = slot ]_vars

(* ------------------------------------------------------------------ *)
(* C8: inside a poll of an override requested for a key of Scope S, an *)
(* operation on a key of another Scope S' that is initialized in       *)
(* Global (the library's own CLog Scope included) does not fail with   *)
(* ScopeNotInitialized and does not panic; a read operation returns    *)
(* and sends what it returns and sends outside every override.         *)
(* ------------------------------------------------------------------ *)
C8_OtherScopeCase ==
    /\ last.op \in ReadOps \cup SetterOps
    /\ last.frame # 0
    /\ last.key.logscope # fut[last.frame].key.logscope
    /\ get_mod(global, last.key.logscope) = "Ok"

C8_OtherScopeResolvesGlobal ==
    C8_OtherScopeCase =>
        /\ last.res \notin {"ScopeNotInitialized", "panic"}
        /\ last.op \in ReadOps =>
               /\ last.res = ReadF(last, global, <<>>).res
               /\ last.sent = ReadF(last, global, <<>>).sent

(* ------------------------------------------------------------------ *)
(* C9: a call goes to the global Context exactly when the calling      *)
(* thread has no override installed (AccessError) or the closure       *)
(* answered KeyNotInitialized on the task copy.  In every other case   *)
(* the caller gets the task copy's answer as it is, and Global is not  *)
(* changed by the call.                                                *)
(* ------------------------------------------------------------------ *)
C9_FallThroughOnlyOnKeyNotInitialized ==
    [][ last'.op \in ReadOps \cup SetterOps =>
          LET sl == slot[last'.t]
          IN  /\ (last'.local = "AccessError") <=> (sl = <<>>)
              /\ (last'.via = "global") <=>
                     (sl = <<>> \/ last'.local = "KeyNotInitialized")
              /\ last'.via = "task" =>
                     /\ last'.res = last'.local
                     /\ global' = global ]_vars

(* a setter issued inside a poll got ScopeNotInitialized from the task *)
(* copy and returned it, although Global has the Scope                 *)
C9_Witness ==
    /\ last.op \in SetterOps /\ last.frame # 0
    /\ last.local = "ScopeNotInitialized"
    /\ last.res = "ScopeNotInitialized" /\ last.via = "task"
    /\ get_mod(global, last.key.logscope) = "Ok"
    /\ Registered(global, last.key) # <<>>
    /\ Registered(global, last.key)[1].logsev = Off

(* ------------------------------------------------------------------ *)
(* C10: a setter issued inside a poll on a key that is not registered  *)
(* in the installed task copy (whose Scope the copy holds) leaves the  *)
(* task copy as it is; when Global has the key registered the call     *)
(* returns Ok and Global becomes what the setter's closure makes of    *)
(* it, otherwise the call fails with KeyNotInitialized and Global is   *)
(* unchanged.                                                          *)
(* ------------------------------------------------------------------ *)
C10_AbsentKeySetterStep ==
    /\ last'.op \in SetterOps /\ nsets' # nsets
    /\ last'.frame # 0
    /\ get_mod(TaskCtx(slot[last'.t]), last'.key.logscope) = "Ok"
    /\ Registered(TaskCtx(slot[last'.t]), last'.key) = <<>>

C10_AbsentKeyWriteFallsThrough ==
    [][ C10_AbsentKeySetterStep =>
          /\ slot' = slot
          /\ IF Registered(global, last'.key) # <<>>
             THEN /\ last'.res = "Ok"
                  /\ global' = SetterF(global, last'.op, last'.key,
                                       SetterArg(last'.op, last'.arg), env).ctx
             ELSE /\ last'.res = "KeyNotInitialized"
                  /\ global' = global ]_vars

(* ------------------------------------------------------------------ *)
(* the Context a call was resolved against                             *)
(* ------------------------------------------------------------------ *)
ResolvedCtx(c) == IF c.via = "task" THEN TaskCtx(slot[c.t]) ELSE global

(* ------------------------------------------------------------------ *)
(* C11: a log call whose resolved Scope is initialized has one of      *)
(* three outcomes.  No Submodule registered for the key: the call      *)
(* fails with KeyNotInitialized and no message reaches a sink.         *)
(* Registered, will_log(level) false: Ok and no message.  Registered,  *)
(* will_log(level) true: Ok and exactly one message, handed to the     *)
(* Submodule's sink.                                                   *)
(* ------------------------------------------------------------------ *)
C11_LogThreeOutcomes ==
    (/\ last.op = "log"
     /\ get_mod(ResolvedCtx(last), last.key.logscope) = "Ok") =>
        LET m == Registered(ResolvedCtx(last), last.key)
        IN  IF m = <<>>
            THEN last.res = "KeyNotInitialized" /\ last.sent = <<>>
            ELSE IF ~will_log(m[1], last.arg.lvl)
            THEN last.res = "Ok" /\ last.sent = <<>>
            ELSE /\ last.res = "Ok"
                 /\ Len(last.sent) = 1
                 /\ last.sent[1].dest = m[1].logdest
                 /\ last.sent[1].msg.severity = last.arg.lvl

(* ------------------------------------------------------------------ *)
(* C12: keys registered out of numeric order.  A skipped key is one     *)
(* whose slot holds a placeholder below a higher registered key.  No    *)
(* read or setter on a skipped key panics, has_module answers false for *)
(* it, and registering it makes has_module true for it and leaves every *)
(* other slot of the Scope as it was.                                   *)
(* ------------------------------------------------------------------ *)
Skipped(ctx, key) ==
    /\ key.logscope <= ScopeKeyMAX
    /\ ctx[key.logscope].initialized
    /\ key.log_key < Len(ctx[key.logscope].submodules)
    /\ ~ctx[key.logscope].submodules[key.log_key + 1].initialized

C12_SkippedKeyStep ==
    /\ last'.op \in ReadOps \cup SetterOps \cup {"add_submodules"}
    /\ last'.via = "global"
    /\ Skipped(global, last'.key)

C12_OutOfOrderRegistration ==
    [][C12_SkippedKeyStep =>
        LET k == last'.key
            before == global[k.logscope].submodules
            after == global'[k.logscope].submodules
        IN  /\ last'.res # "panic"
            /\ last'.op = "has_module" => last'.res = "Ok(false)"
            /\ last'.op # "add_submodules" => Skipped(global', k)
            /\ last'.op = "add_submodules" =>
                   /\ last'.res = "Ok"
                   /\ HasModuleF(global', k).res = "Ok(true)"
                   /\ Len(after) = Len(before)
                   /\ \A i \in 1..Len(before) :
                          i # k.log_key + 1 => after[i] = before[i]]_vars

C12_Witness ==
    /\ last.op = "has_module" /\ last.res = "Ok(false)"
    /\ last.key = AppKey(1)
    /\ Skipped(global, AppKey(1))
    /\ has_submodule(global[Application], AppKey(0))
    /\ has_submodule(global[Application], AppKey(2))

(* ------------------------------------------------------------------ *)
(* C13: a setter (set_level, set_logdest, set_module_options,           *)
(* unset_module_options, reset_module_options) on a key that has no     *)
(* registered Submodule in an initialized Scope, be its index beyond    *)
(* the list or a placeholder slot, fails with KeyNotInitialized and     *)
(* changes no Submodule.                                                *)
(* ------------------------------------------------------------------ *)
C13_UnregisteredSetterStep ==
    /\ last'.op \in SetterOps
    /\ last'.via = "global"
    /\ get_mod(global, last'.key.logscope) = "Ok"
    /\ Registered(global, last'.key) = <<>>

C13_SetterOnUnregisteredKeyFails ==
    [][C13_UnregisteredSetterStep =>
        (last'.res = "KeyNotInitialized" /\ global' = global)]_vars

(* ------------------------------------------------------------------ *)
(* C14: in an initialized Scope, test_log on a key that has no          *)
(* registered Submodule in the resolved Scope returns Ok(false), for    *)
(* every level and after any configuration calls, and test_log changes  *)
(* no state.                                                            *)
(* ------------------------------------------------------------------ *)
C14_UnregisteredTestStep ==
    /\ last'.op = "test_log"
    /\ last'.via = "global"
    /\ get_mod(global, last'.key.logscope) = "Ok"
    /\ Registered(global, last'.key) = <<>>

C14_TestLogFalseForUnregisteredKey ==
    [][C14_UnregisteredTestStep =>
        /\ last'.res = "Ok(false)"
        /\ UNCHANGED <<global, env, compat, slot, fut, stack, nsets, pend>>]_vars

(* ------------------------------------------------------------------ *)
(* C15: test_log and log resolve alike.  In every state, for every      *)
(* thread (with or without an override installed), key and level,       *)
(* test_log(key, level) answers true exactly when log(key, level)       *)
(* issued in that state passes will_log and calls Submodule::do_log.    *)
(* ------------------------------------------------------------------ *)
(* log(key, lvl) reaches do_log on the Context it is resolved against *)
LogCallsDoLog(key, lvl, sl, g) ==
    LET r == api_log(key, lvl, sl, g)
        ctx == IF r.via = "task" THEN TaskCtx(sl) ELSE g
    IN  /\ r.res = "Ok"
        /\ get_submodule(ctx[key.logscope], key) # <<>>
        /\ will_log(get_submodule(ctx[key.logscope], key)[1], lvl)

C15_TestLogAgreesWithLog ==
    \A t \in Threads, k \in CLogReadKeys, l \in CLogLevels :
        (api_test_log(k, l, slot[t], global).res = "Ok(true)")
            <=> LogCallsDoLog(k, l, slot[t], global)

(* ------------------------------------------------------------------ *)
(* C16: init of a ScopeId that is already initialized, called again     *)
(* later or racing from another thread, with the same or different      *)
(* arguments, returns success and changes nothing: every initialized    *)
(* Scope keeps its name and defaults and every registered Submodule its *)
(* level, options and sink.                                             *)
(* ------------------------------------------------------------------ *)
C16_ReinitStep ==
    /\ last'.op \in {"init", "init_begin"}
    /\ IF pend[last'.t] = <<>> THEN Context_has(global, Application)
       ELSE pend[last'.t][1].reinit

ScopeKept(old, new) ==
    /\ new.initialized
    /\ new.name = old.name
    /\ new.default_level = old.default_level
    /\ new.default_facade = old.default_facade
    /\ new.default_options = old.default_options
    /\ Len(new.submodules) >= Len(old.submodules)
    /\ \A i \in 1..Len(old.submodules) :
           old.submodules[i].initialized => new.submodules[i] = old.submodules[i]

C16_ReinitIsNoOp ==
    [][C16_ReinitStep =>
        /\ last'.res = "Ok"
        /\ \A sk \in ScopeKeys :
               global[sk].initialized => ScopeKept(global[sk], global'[sk])]_vars

(* ------------------------------------------------------------------ *)
(* C17: first registration wins.  add_submodules of a key whose slot    *)
(* holds a registered Submodule returns Ok and changes nothing: the     *)
(* Submodule keeps its level, options and sink, values set at runtime   *)
(* included, whatever level, sink or options the key of the second      *)
(* registration declares.                                               *)
(* ------------------------------------------------------------------ *)
C17_ReRegisterStep ==
    /\ last'.op = "add_submodules"
    /\ get_mod(global, last'.key.logscope) = "Ok"
    /\ Registered(global, last'.key) # <<>>

C17_FirstRegistrationWins ==
    [][C17_ReRegisterStep => (last'.res = "Ok" /\ global' = global)]_vars

(* key 1 was registered, its level set at runtime to Debug10, and then  *)
(* registered again with a key that declares Debug5, syslog and options *)
C17_Witness ==
    /\ last.op = "add_submodules" /\ last.res = "Ok"
    /\ last.key = KeyAll
    /\ Registered(global, KeyAll) # <<>>
    /\ Registered(global, KeyAll)[1].logsev = Debug10
    /\ Registered(global, KeyAll)[1].logdest # "Syslog"

(* ------------------------------------------------------------------ *)
(* C18: add_submodules of a key that is not registered installs a       *)
(* Submodule whose level, sink and options are, each on its own, the    *)
(* value the key declares or else the default of the Scope; with a      *)
(* syslog sink the six syslog-suppressed options are cleared; every     *)
(* slot added below the key is a placeholder with level Off and no      *)
(* sink.                                                                *)
(* ------------------------------------------------------------------ *)
C18_NewRegistrationStep ==
    /\ last'.op = "add_submodules"
    /\ get_mod(global, last'.key.logscope) = "Ok"
    /\ Registered(global, last'.key) = <<>>

C19_UninitializedScopeStep ==
    /\ last'.op \in ReadOps \cup SetterOps \cup {"add_submodules", "scope"}
    /\ last'.key.logscope <= ScopeKeyMAX
    /\ ~global[last'.key.logscope].initialized

C19_ScopeNotInitialized ==
    [][C19_UninitializedScopeStep =>
        /\ last'.res = "ScopeNotInitialized"
        /\ UNCHANGED <<global, slot, fut>>]_vars

(* inside an override, after init: a setter on the key of the Lib Scope *)
C19_Witness ==
    /\ last.op \in SetterOps /\ last.key = LibKey
    /\ last.res = "ScopeNotInitialized"
    /\ last.frame # 0
    /\ global[Application].initialized /\ ~global[Lib].initialized

(* ------------------------------------------------------------------ *)
(* C20: in every reachable state, in the Global Registry and in every   *)
(* task copy (installed in a thread's slot, parked in a wrapper or      *)
(* saved by a poll in progress), every initialized Submodule at index i *)
(* of its Scope has key i.                                              *)
(* ------------------------------------------------------------------ *)
AllContexts ==
    {global}
    \cup {slot[t][1] : t \in {u \in Threads : slot[u] # <<>>}}
    \cup {fut[w].slot[1] : w \in {v \in Futures : fut[v].slot # <<>>}}
    \cup UNION {{stack[t][i].prev[1] :
                   i \in {j \in 1..Len(stack[t]) : stack[t][j].prev # <<>>}} :
               t \in Threads}

C20_KeyEqualsIndex ==
    \A ctx \in AllContexts : \A sk \in ScopeKeys :
        \A i \in 1..Len(ctx[sk].submodules) :
            ctx[sk].submodules[i].initialized => ctx[sk].submodules[i].key = i - 1

(* key 1 registered before key 0, an override installed and a setter    *)
(* applied to the task copy                                             *)
C20_Witness ==
    /\ last.op \in SetterOps /\ last.via = "task" /\ last.res = "Ok"
    /\ Skipped(global, AppKey(0))
    /\ Registered(global, AppKey(1)) # <<>>
    /\ Registered(slot[last.t][1], AppKey(1)) # <<>>

(* ------------------------------------------------------------------ *)
(* C21: threshold rule.  For a registered key without EXACT_LVL_MATCH,  *)
(* test_log at level R is true iff R <= the Submodule's current level;  *)
(* the current level is the level of the most recent set_level on the   *)
(* key, or its seed: set_level stores its argument and no other setter  *)
(* touches the level.                                                   *)
(* ------------------------------------------------------------------ *)
C21_LevelThreshold ==
    [][LET k == last'.key
           m == Registered(global, k)
       IN  /\ (/\ last'.op = "test_log"
               /\ m # <<>>
               /\ ~Options_has(m[1].options, {"EXACT_LVL_MATCH"}))
               => last'.res = IF last'.arg.lvl <= m[1].logsev
                              THEN "Ok(true)" ELSE "Ok(false)"
           /\ (last'.op \in SetterOps /\ m # <<>>)
               => /\ last'.res = "Ok"
                  /\ Registered(global', k)[1].logsev =
                         IF last'.op = "set_level" THEN last'.arg.lvl
                         ELSE m[1].logsev]_vars

(* seed Info; after set_level(k0, Debug5), test_log(k0, Debug5) is true *)
C21_Witness ==
    /\ last.op = "test_log" /\ last.key = AppKey(0)
    /\ last.arg.lvl = Debug5 /\ last.res = "Ok(true)"
    /\ Registered(global, AppKey(0)) # <<>>
    /\ Registered(global, AppKey(0))[1].logsev = Debug5
    /\ ~Options_has(Registered(global, AppKey(0))[1].options, {"EXACT_LVL_MATCH"})

(* ------------------------------------------------------------------ *)
(* C22: exact level match.  With EXACT_LVL_MATCH set on a registered    *)
(* Submodule, test_log at level X is true iff X equals the Submodule's  *)
(* current level, for every X; unset_module_options(EXACT_LVL_MATCH)    *)
(* clears the option, and from then on X <= current level decides.      *)
(* ------------------------------------------------------------------ *)
C22_ExactLevelMatch ==
    [][LET k == last'.key
           m == Registered(global, k)
           exact == {"EXACT_LVL_MATCH"}
       IN  /\ (last'.op = "test_log" /\ m # <<>>)
               => last'.res =
                     IF Options_has(m[1].options, exact)
                     THEN (IF last'.arg.lvl = m[1].logsev
                           THEN "Ok(true)" ELSE "Ok(false)")
                     ELSE (IF last'.arg.lvl <= m[1].logsev
                           THEN "Ok(true)" ELSE "Ok(false)")
           /\ (/\ last'.op \in {"set_module_options", "unset_module_options"}
               /\ last'.arg.flags = exact
               /\ m # <<>>)
               => (Options_has(Registered(global', k)[1].options, exact)
                      <=> last'.op = "set_module_options")]_vars

(* level Info with EXACT_LVL_MATCH: test_log(k0, Error) is false *)
C22_Witness ==
    /\ last.op = "test_log" /\ last.key = AppKey(0)
    /\ last.arg.lvl = Error /\ last.res = "Ok(false)"
    /\ Registered(global, AppKey(0)) # <<>>
    /\ Registered(global, AppKey(0))[1].logsev = Info
    /\ Options_has(Registered(global, AppKey(0))[1].options, {"EXACT_LVL_MATCH"})

(* ------------------------------------------------------------------ *)
(* C23: Off never matches anything.  For a registered Submodule whose   *)
(* current level is Off, test_log at every level R, Off included, is    *)
(* false, with or without EXACT_LVL_MATCH.                              *)
(* ------------------------------------------------------------------ *)
C23_OffLevelStep ==
    /\ last'.op = "test_log"
    /\ Registered(global, last'.key) # <<>>
    /\ Registered(global, last'.key)[1].logsev = Off

C23_OffNeverMatches ==
    [][C23_OffLevelStep => last'.res = "Ok(false)"]_vars

(* ------------------------------------------------------------------ *)
(* C24: round trip of remove and add.  Options::default() - F + F is    *)
(* Options::default() for every single flag F of the 15 flags: a        *)
(* Submodule holding the defaults, after unset_module_options(F) and    *)
(* then set_module_options(F), holds the defaults again.                *)
(* ------------------------------------------------------------------ *)
(* set_module_options(F) right after unset_module_options(F) had left   *)
(* the Submodule with Options::default() - F                            *)
C24_RoundTripStep ==
    /\ last.op = "unset_module_options" /\ last.res = "Ok"
    /\ last'.op = "set_module_options" /\ last'.res = "Ok"
    /\ last'.key = last.key /\ last'.arg.flags = last.arg.flags
    /\ Cardinality(last.arg.flags) = 1
    /\ Registered(global, last.key) # <<>>
    /\ Registered(global, last.key)[1].options =
           Options_sub(Options_default, last.arg.flags)

C24_RoundTripAllFlags ==
    [][C24_RoundTripStep =>
        Registered(global', last'.key)[1].options = Options_default]_vars

(* C24 as amended: the round trip gives the defaults back for the flags *)
(* the defaults contain; for a flag they do not contain (SCOPE,         *)
(* EXACT_LVL_MATCH) it gives the defaults plus that flag.               *)
C24_RoundTripDefaultFlags ==
    [][C24_RoundTripStep =>
        /\ last'.arg.flags \subseteq Options_default =>
               Registered(global', last'.key)[1].options = Options_default
        /\ ~(last'.arg.flags \subseteq Options_default) =>
               /\ Registered(global', last'.key)[1].options # Options_default
               /\ Registered(global', last'.key)[1].options =
                      Options_default \cup last'.arg.flags]_vars

(* unset_module_options(TID), then set_module_options(TID) *)
C24_Witness ==
    /\ last.op = "set_module_options" /\ last.arg.flags = {"TID"}
    /\ nsets = 2
    /\ Registered(global, AppKey(0)) # <<>>
    /\ Registered(global, AppKey(0))[1].options = Options_default

(* ------------------------------------------------------------------ *)
(* C25: in every reachable state, after any registration and any        *)
(* set_module_options, unset_module_options, reset_module_options and   *)
(* set_logdest calls, a registered Submodule whose sink is syslog has   *)
(* none of TIMESTAMP, DATESTAMP, NANOSEC, BINNAME, PID and SEVERITY     *)
(* set.                                                                 *)
(* ------------------------------------------------------------------ *)
C25_SyslogOptionsSuppressed ==
    \A sk \in ScopeKeys : \A i \in 1..Len(global[sk].submodules) :
        LET m == global[sk].submodules[i]
        IN  (m.initialized /\ m.logdest = "Syslog")
                => m.options \cap SyslogSuppressed = {}

(* ------------------------------------------------------------------ *)
(* set_mod_level                                                       *)
(* ------------------------------------------------------------------ *)
SegModule(seg) == SegText(split_once(seg)[1])
SegLevel(seg) == SegText(split_once(seg)[2])

(* C26: level updates apply in list order: after a set_mod_level call   *)
(* that returned Ok, every registered Submodule has the level of the    *)
(* last pair of the call that named it or the wildcard, and keeps its   *)
(* level if no pair did.                                                *)
C26_LastPairStep ==
    (last'.op = "set_mod_level" /\ last'.args # <<>> /\ last'.res = "Ok")
    => \A sk \in ScopeKeys :
         \A i \in 1..Len(global[sk].submodules) :
           LET m == global[sk].submodules[i]
               segs == flat_map_split(last'.args)
               J == {j \in 1..Len(segs) :
                        \/ SegModule(segs[j]) = m.name
                        \/ eq_ignore_ascii_case(SegModule(segs[j]), "_all")}
               jmax == CHOOSE x \in J : \A y \in J : y <= x
           IN  (global[sk].initialized /\ m.initialized)
               => global'[sk].submodules[i].logsev =
                    IF J = {} THEN m.logsev
                    ELSE Level_from_str(SegLevel(segs[jmax]))[1]

C26_LastPairWins == [][C26_LastPairStep]_vars

(* the three failure classes of a segment, stated on the segment alone  *)
SegMalformed(seg) ==
    \/ \A i \in 1..Len(seg) : seg[i] # ":"
    \/ SegModule(seg) = ""
    \/ SegLevel(seg) = ""

SegLevelKnown(seg) ==
    \E l \in Levels : LevelNames[l + 1] = to_ascii_lowercase(SegLevel(seg))

(* some registered Submodule of ctx carries the name, letter case aside *)
NamesRegistered(ctx, name) ==
    \E sk \in ScopeKeys :
      /\ ctx[sk].initialized
      /\ \E i \in 1..Len(ctx[sk].submodules) :
           /\ ctx[sk].submodules[i].initialized
           /\ eq_ignore_ascii_case(ctx[sk].submodules[i].name, name)

SegFailure(ctx, seg) ==
    IF SegMalformed(seg) THEN "ParseArg"
    ELSE IF ~SegLevelKnown(seg) THEN "UnknownLogLevel"
    ELSE IF /\ ~eq_ignore_ascii_case(SegModule(seg), "_all")
            /\ ~NamesRegistered(ctx, SegModule(seg))
         THEN "KeyNotInitialized"
    ELSE "None"

(* C27: set_mod_level fails with ParseArg for a segment without ':' or  *)
(* with an empty key or level, with UnknownLogLevel for a well-formed   *)
(* pair with an unknown level, and with KeyNotInitialized for a         *)
(* well-formed pair with a known level that names no registered key:    *)
(* the call returns the failure of the first such segment of its list.  *)
C27_FailureStep ==
    (last'.op = "set_mod_level" /\ last'.args # <<>>)
    => LET segs == flat_map_split(last'.args)
           F == {j \in 1..Len(segs) : SegFailure(global, segs[j]) # "None"}
           jmin == CHOOSE x \in F : \A y \in F : x <= y
       IN  F # {} => last'.res = SegFailure(global, segs[jmin])

C27_ThreeFailures == [][C27_FailureStep]_vars

(* a pair with an unknown level and an unknown key was answered *)
C27_Witness ==
    /\ last.op = "set_mod_level"
    /\ last.res = "UnknownLogLevel"
    /\ \E j \in 1..Len(flat_map_split(last.args)) :
         LET seg == flat_map_split(last.args)[j]
         IN  /\ ~SegMalformed(seg)
             /\ ~SegLevelKnown(seg)
             /\ ~NamesRegistered(global, SegModule(seg))
    /\ Context_has(global, Application)

(* C28: the key of a pair is matched case-insensitively: a call of      *)
(* set_mod_level with one well-formed pair whose level is known and     *)
(* whose key differs from the name of a registered Submodule only in    *)
(* letter case returns Ok and sets the level of that Submodule.         *)
C28_KeyCaseStep ==
    (last'.op = "set_mod_level" /\ Len(flat_map_split(last'.args)) = 1)
    => LET seg == flat_map_split(last'.args)[1]
       IN  (~SegMalformed(seg) /\ SegLevelKnown(seg))
           => \A sk \in ScopeKeys :
                \A i \in 1..Len(global[sk].submodules) :
                  LET m == global[sk].submodules[i]
                  IN  ( /\ global[sk].initialized
                        /\ m.initialized
                        /\ m.name # SegModule(seg)
                        /\ eq_ignore_ascii_case(m.name, SegModule(seg)) )
                      => /\ last'.res = "Ok"
                         /\ global'[sk].submodules[i].logsev
                              = Level_from_str(SegLevel(seg))[1]

C28_KeyCaseInsensitive == [][C28_KeyCaseStep]_vars

(* C29: get_submod_by_name returns the first registered Submodule with  *)
(* the name, Scopes in ScopeKey order and Submodules in key order, and  *)
(* none when no registered Submodule has the name; never a placeholder  *)
(* and never a Submodule of an uninitialized Scope.                     *)
C29_FindRegisteredOnly ==
    \A name \in {"k0", "k1", "hclog", "logcompat", "nokey"} :
      LET R == {p \in ScopeKeys \X (1..(MaxRegKey + 1)) :
                   /\ global[p[1]].initialized
                   /\ p[2] <= Len(global[p[1]].submodules)
                   /\ global[p[1]].submodules[p[2]].initialized
                   /\ global[p[1]].submodules[p[2]].name = name}
          found == Context_get_submod_by_name(global, name)
      IN  IF R = {} THEN found = <<>>
          ELSE /\ found \in R
               /\ \A p \in R :
                    \/ found[1] < p[1]
                    \/ (found[1] = p[1] /\ found[2] <= p[2])

(* ------------------------------------------------------------------ *)
(* registry growth                                                     *)
(* ------------------------------------------------------------------ *)
(* C30: Registry growth is monotonic: no step takes an initialized      *)
(* Scope of the Global Registry back to uninitialized, and no step      *)
(* makes has_submodule false for a key for which it was true.           *)
C30_GrowthStep ==
    /\ \A sk \in ScopeKeys :
         global[sk].initialized => global'[sk].initialized
    /\ \A k \in {AppKey(i) : i \in 0..MaxRegKey} \cup {Internal, LogCompat} :
         has_submodule(global[k.logscope], k)
             => has_submodule(global'[k.logscope], k)

C40_SinkGetsMessageLevel ==
    last.op = "log"
    => \A i \in 1..Len(last.sent) :
         last.sent[i].level = last.sent[i].msg.severity

(* ------------------------------------------------------------------ *)
(* overrides: construction, nesting, lifetime                          *)
(* ------------------------------------------------------------------ *)
(* C33: scope() arms the override synchronously: when it returns Ok the *)
(* new wrapper, not yet polled, owns a Task-kind clone of the Global    *)
(* Scope as it is at construction (kind Task, identity recorded, the    *)
(* Submodules of the Global Scope copied, the requested key registered),*)
(* and when the Global Scope does not exist scope() fails with          *)
(* ScopeNotInitialized and creates nothing.                             *)
C33_ArmStep ==
    last'.op = "scope"
    => LET ls == last'.key.logscope
       IN  IF ~global[ls].initialized
           THEN last'.res = "ScopeNotInitialized" /\ fut' = fut
           ELSE last'.res = "Ok"
                => \E w \in Futures :
                     /\ fut[w].st = "unused"
                     /\ fut'[w].st = "idle"
                     /\ fut'[w].future
                     /\ \A v \in Futures \ {w} : fut'[v] = fut[v]
                     /\ fut'[w].slot # <<>>
                     /\ LET c == fut'[w].slot[1][ls]
                        IN  /\ c.env = "Task"
                            /\ c.env_ident # <<>>
                            /\ c.initialized
                            /\ c.name = global[ls].name
                            /\ has_submodule(c, last'.key)
                            /\ \A i \in 1..Len(global[ls].submodules) :
                                 global[ls].submodules[i].initialized
                                   => c.submodules[i] = global[ls].submodules[i]

C33_ArmedAtConstruction == [][C33_ArmStep]_vars

(* scope() returned Ok for a key the Global Scope had not registered,   *)
(* and the wrapper has not been polled                                  *)
C33_Witness ==
    /\ last.op = "scope" /\ last.res = "Ok"
    /\ ~has_submodule(global[last.key.logscope], last.key)
    /\ \E w \in Futures : fut[w].st = "idle" /\ fut[w].slot # <<>>
                          /\ has_submodule(fut[w].slot[1][last.key.logscope], last.key)

(* C35: an override constructed while an enclosing override is          *)
(* installed is derived from the Global Scope: for every key the Global *)
(* Scope has registered the new copy holds the Global level, sink and   *)
(* options of that moment, and a requested key the Global Scope has not *)
(* registered gets the Global Scope's defaults, whatever the enclosing  *)
(* task copy holds.                                                     *)
C35_NestedStep ==
    (last'.op = "scope" /\ last'.res = "Ok" /\ slot[last'.t] # <<>>)
    => LET ls == last'.key.logscope
           k == last'.key
       IN  \E w \in Futures :
             /\ fut[w].st = "unused" /\ fut'[w].st = "idle"
             /\ LET c == fut'[w].slot[1][ls]
                IN  /\ \A i \in 1..Len(global[ls].submodules) :
                         global[ls].submodules[i].initialized
                           => c.submodules[i] = global[ls].submodules[i]
                    /\ ~has_submodule(global[ls], k)
                         => /\ c.submodules[k.log_key + 1].logsev
                                 = unwrap_or(k.init_level, global[ls].default_level)
                            /\ c.submodules[k.log_key + 1].logdest
                                 = unwrap_or(k.init_facade, global[ls].default_facade)

C35_NestedFromGlobal == [][C35_NestedStep]_vars

(* an override was constructed inside an enclosing one whose copy holds *)
(* another level for the requested key than the Global Scope            *)
C35_Witness ==
    /\ last.op = "scope" /\ last.res = "Ok"
    /\ slot[last.t] # <<>>
    /\ LET ls == last.key.logscope
           k == last.key
       IN  /\ has_submodule(slot[last.t][1][ls], k)
           /\ has_submodule(global[ls], k)
           /\ slot[last.t][1][ls].submodules[k.log_key + 1].logsev
                # global[ls].submodules[k.log_key + 1].logsev
           /\ \E w \in Futures :
                /\ fut[w].st = "idle" /\ fut[w].slot # <<>>
                /\ fut[w].slot[1][ls].submodules[k.log_key + 1].logsev
                     = global[ls].submodules[k.log_key + 1].logsev

(* C36: what a task set in its copy persists for the lifetime of the    *)
(* override: the exit of a poll hands the copy, as the task left it, to *)
(* the wrapper; no step of any thread or task changes the copy of a     *)
(* wrapper that is not being polled; the next poll installs that very   *)
(* copy; and the drop of the wrapper discards it.                       *)
C36_PersistStep ==
    \A w \in Futures :
      /\ (fut[w].st = "polling" /\ fut'[w].st = "idle")
           => \E t \in Threads : Frame(t) = w /\ fut'[w].slot = slot[t]
      /\ (fut[w].st = "idle" /\ fut'[w].st = "idle")
           => fut'[w].slot = fut[w].slot
      /\ (fut[w].st = "idle" /\ fut'[w].st = "polling")
           => \E t \in Threads :
                /\ stack'[t] # <<>> /\ Head(stack'[t]).w = w
                /\ slot'[t] = fut[w].slot
      /\ (fut[w].st # "dropped" /\ fut'[w].st = "dropped")
           => fut'[w].slot = <<>>

C36_MutationsPersist == [][C36_PersistStep]_vars

(* a wrapper is polled again and finds the level its task set during an *)
(* earlier poll, the Global level being another one; a second wrapper   *)
(* exists on the same thread                                            *)
C36_Witness ==
    \E t \in Threads, w \in Futures, k \in AppKeys :
      /\ last.op = "none"
      /\ stack[t] # <<>> /\ Frame(t) = w /\ fut[w].st = "polling"
      /\ slot[t] # <<>>
      /\ has_submodule(slot[t][1][k.logscope], k)
      /\ has_submodule(global[k.logscope], k)
      /\ slot[t][1][k.logscope].submodules[k.log_key + 1].logsev = Debug10
      /\ global[k.logscope].submodules[k.log_key + 1].logsev = InitLevel
      /\ \E v \in Futures \ {w} : fut[v].st \in {"idle", "polling"}

(* C37: set_mod_level and add_submodules act on the Global Registry and *)
(* never on a task copy, also when called inside the poll of an         *)
(* override: the installed copy and the copies of all wrappers stay as  *)
(* they are, and a test_log inside the task for a key the copy holds is *)
(* answered from the level of the copy.                                 *)
C37_GlobalOnlyStep ==
    /\ last'.op \in {"set_mod_level", "add_submodules"}
         => slot' = slot /\ fut' = fut /\ last'.via = "global"
    /\ (last'.op = "test_log" /\ slot[last'.t] # <<>>)
         => LET k == last'.key
                c == slot[last'.t][1][k.logscope]
            IN  (c.initialized /\ k.log_key < Len(c.submodules))
                => /\ last'.via = "task"
                   /\ last'.res = IF will_log(c.submodules[k.log_key + 1],
                                              last'.arg.lvl)
                                  THEN "Ok(true)" ELSE "Ok(false)"

C37_ActOnGlobalOnly == [][C37_GlobalOnlyStep]_vars

(* set_mod_level was called inside the poll of an override and changed  *)
(* the Global level of the key of the override, whose copy keeps its    *)
(* level                                                                *)
C37_Witness ==
    /\ last.op = "set_mod_level" /\ last.res = "Ok"
    /\ stack[last.t] # <<>> /\ slot[last.t] # <<>>
    /\ has_submodule(slot[last.t][1][Application], AppKey(0))
    /\ has_submodule(global[Application], AppKey(0))
    /\ global[Application].submodules[1].logsev = Debug10
    /\ slot[last.t][1][Application].submodules[1].logsev = InitLevel

(* ------------------------------------------------------------------ *)
(* message assembly                                                    *)
(* ------------------------------------------------------------------ *)
(* the text the field list prescribes for message m: the enabled fields *)
(* in order, each followed by one space, the binary name and the        *)
(* [pid/tid] bracket sharing one; withFunc tells whether the function   *)
(* name field is written                                                *)
FieldText(m, withFunc) ==
    LET on(f) == f \in m.options
    IN  (IF on("DATESTAMP") THEN <<"date", " ">> ELSE <<>>)
        \o (IF ~on("TIMESTAMP") THEN <<>>
            ELSE IF on("NANOSEC") THEN <<"time.nanos", " ">>
            ELSE <<"time", " ">>)
        \o (IF on("BINNAME") THEN <<m.binname>> ELSE <<>>)
        \o (IF on("PID") \/ on("TID")
            THEN <<"[">> \o (IF on("PID") THEN <<"pid">> ELSE <<>>)
                 \o (IF on("PID") /\ on("TID") THEN <<"/">> ELSE <<>>)
                 \o (IF on("TID") THEN <<"tid">> ELSE <<>>) \o <<"]">>
            ELSE <<>>)
        \o (IF on("BINNAME") \/ on("PID") \/ on("TID") THEN <<" ">> ELSE <<>>)
        \o (IF on("SEVERITY") THEN <<LevelNames[m.severity[1] + 1], " ">> ELSE <<>>)
        \o (IF on("MODULE") THEN <<m.modname[1], " ">> ELSE <<>>)
        \o (IF on("SCOPE")
            THEN <<m.scope[1]>>
                 \o (IF m.scope[1] = "Task" THEN <<"[", m.scope_ident[1], "]">>
                     ELSE <<>>)
                 \o <<" ">>
            ELSE <<>>)
        \o (IF on("FILE")
            THEN <<m.file>> \o (IF on("LINE") THEN <<":", m.line>> ELSE <<>>)
                 \o <<" ">>
            ELSE <<>>)
        \o (IF withFunc THEN <<m.func, " ">> ELSE <<>>)
        \o <<m.fmt>>

(* C34 as stated: the rendered message is the enabled fields in the     *)
(* fixed order, each followed by exactly one space, the function name   *)
(* whenever FUNC is enabled, then the caller's text.                    *)
C34_EveryEnabledField ==
    [][ last'.op = "to_string"
        => LET m == pend[last'.t][1]
           IN  last'.sent[1] = FieldText(m, "FUNC" \in m.options) ]_vars

(* C34, amended: as above, but the function name field and its space   *)
(* are written only when FUNC is enabled and the function name is not   *)
(* empty.                                                               *)
C34_FixedFieldOrder ==
    [][ last'.op = "to_string"
        => LET m == pend[last'.t][1]
           IN  last'.sent[1] = FieldText(m, "FUNC" \in m.options /\ m.func # "") ]_vars

(* a message with the binary name but neither pid nor tid, and with an  *)
(* empty function name under FUNC, was rendered                         *)
C34_Witness ==
    /\ last.op = "to_string"
    /\ Len(last.sent[1]) = 5
    /\ last.sent[1] = <<"svc", " ", "error", " ", "text">>

(* ------------------------------------------------------------------ *)
(* C31: a log call that resolves against the Global Registry does not   *)
(* hold the Registry read lock while the sink write is performed.       *)
(* ------------------------------------------------------------------ *)
C31_SinkOutsideLock ==
    \A t \in Threads :
        (pend[t] # <<>> /\ Head(pend[t]).pc = "sink") => ~holds_read(t)

(* ------------------------------------------------------------------ *)
(* C39: no thread requests the Registry lock while it already holds a   *)
(* guard of it.                                                         *)
(* ------------------------------------------------------------------ *)
C39_NoReentry ==
    \A t \in Threads : at_lock(t) => (~holds_read(t) /\ ~holds_write(t))

(* ------------------------------------------------------------------ *)
(* C32: once the lock is poisoned it stays poisoned, every call that    *)
(* returns answers ContextLock, and neither the Registry nor any        *)
(* wrapper changes.                                                     *)
(* ------------------------------------------------------------------ *)
C32_PoisonStep ==
    poisoned =>
        /\ poisoned'
        /\ global' = global
        /\ fut' = fut
        /\ \A t \in Threads :
              (pend[t] # <<>> /\ pend'[t] = <<>>) =>
                  (last'.t = t /\ last'.res = "ContextLock")

C32_PoisonedIsContextLock == [][C32_PoisonStep]_vars

C32_Witness ==
    /\ poisoned
    /\ last.op = "set_level"
    /\ last.res = "ContextLock"

(* ------------------------------------------------------------------ *)
(* C38: a failing set_mod_level returns the error of its first failing  *)
(* pair, leaves the pairs before it applied and applies none after it;  *)
(* between two pairs of a batch no other thread holds a guard.          *)
(* ------------------------------------------------------------------ *)
C38_Between ==
    \A t \in Threads :
        (/\ pend[t] # <<>>
         /\ Head(pend[t]).fn = "set_mod_level"
         /\ Head(pend[t]).segs # <<>>
         /\ Len(Head(pend[t]).segs) < Len(flat_map_split(Head(pend[t]).arg)))
        => \A u \in Threads \ {t} : ~holds_read(u) /\ ~holds_write(u)

C38_Step ==
    \A t \in Threads :
        (/\ pend[t] # <<>>
         /\ Head(pend[t]).fn = "set_mod_level"
         /\ Head(pend[t]).pc = "body"
         /\ pend'[t] = <<>>)
        => LET all == flat_map_split(Head(pend[t]).arg)
               g0 == Head(pend[t]).entry[1]
           IN  IF last'.res = "Ok"
               THEN /\ set_mod_level(g0, all).res = "Ok"
                    /\ global' = set_mod_level(g0, all).ctx
               ELSE \E j \in 1..Len(all) :
                       /\ set_mod_level(g0, SubSeq(all, 1, j - 1)).res = "Ok"
                       /\ global' = set_mod_level(g0, SubSeq(all, 1, j - 1)).ctx
                       /\ set_mod_level(global', <<all[j]>>).res = last'.res
                       /\ last'.res \in {"ParseArg", "UnknownLogLevel",
                                         "KeyNotInitialized"}

C38_PairByPair == [][C38_Between /\ C38_Step]_vars

C38_Witness ==
    /\ last.op = "set_mod_level"
    /\ last.res = "KeyNotInitialized"
    /\ global[Application].submodules[1].logsev = Warn
    /\ \E t \in Threads : pend[t] # <<>> /\ Head(pend[t]).pc \in {"read", "write"}

====
